---------------------------- MODULE Spec2Model ----------------------------
(***************************************************************************)
(* Room game-state engine of intrapreneurs-online: the act and join        *)
(* handlers (api/rooms/[id]/act.js, api/rooms/[id]/join.js), the turn and   *)
(* round reducer (api/_lib/roomReducer.js), room creation                   *)
(* (api/rooms/index.js, api/_lib/roomSetup.js) and the public projection    *)
(* (api/_lib/publicRoomState.js), over a gist store that is written with    *)
(* If-Match on the entity tag obtained by the read.                         *)
(*                                                                         *)
(* Card ids are abstracted to positive integers (0 stands for null), one    *)
(* id space per deck.  Macro events keep their string ids.                  *)
(***************************************************************************)
EXTENDS Integers, Sequences, FiniteSets, TLC

(***************************************************************************)
(* Bounds of the model.                                                    *)
(***************************************************************************)
PlayerCount == 2
ExtraAssets == 4
MaxActions == 3
MaxJoinWrites == 2
MaxRaceActions == 2
MaxRaceJoinWrites == 1
MaxTurnActions == 5
NumSlots == 2

(***************************************************************************)
(* Program constants.                                                      *)
(***************************************************************************)
SEAT_ORDER == <<"A", "B", "C", "D">>
FULL_TURN_ROUND_ADVANCE == 2
MinPlayers == 2
MaxPlayers == 4
InitialHandSize == 2
TotalRounds == 3
ProjectMarketSize == 5
AssetMarketSize == 3
DealSize == 2
DefaultHandLimit == 7
MacroM5HandLimit == 6

NullCard == 0
NullTarget == 0 - 1
NoMacro == "none"

(***************************************************************************)
(* Sequence helpers (Array.prototype.includes / filter / slice).           *)
(***************************************************************************)
SeqToSet(s) == {s[i] : i \in DOMAIN s}
Includes(s, x) == x \in SeqToSet(s)
Without(s, x) == SelectSeq(s, LAMBDA y : y # x)
Take(s, n) == SubSeq(s, 1, n)
Drop(s, n) == SubSeq(s, n + 1, Len(s))
Reverse(s) == [i \in 1..Len(s) |-> s[Len(s) + 1 - i]]
Min(a, b) == IF a < b THEN a ELSE b
Max(a, b) == IF a > b THEN a ELSE b

RECURSIVE SumSeq(_)
SumSeq(s) == IF s = <<>> THEN 0 ELSE s[1] + SumSeq(Tail(s))

(***************************************************************************)
(* Card catalog (src/data/*.json, loaded once; the data files are static   *)
(* lookup tables).                                                         *)
(***************************************************************************)
NumAssets == AssetMarketSize + DealSize * PlayerCount + ExtraAssets
NumProjects == ProjectMarketSize + 1
AssetIds == 1..NumAssets
ProjectIds == 1..NumProjects
MacroIds == <<"macro-m5", "macro-m6">>

\* assetLookup[id].pickCondition is set for some cards only
ConditionalAssets == {2}
\* every asset counted as eligible, pickCondition or not
isAssetEligible_Any(assetId) == assetId \in AssetIds

isAssetEligible(assetId) == assetId \in AssetIds /\ assetId \notin ConditionalAssets

assetOutcomes(assetId) ==
    [budget |-> 1 - 2 * (assetId % 2), headcount |-> 1, tailwind |-> assetId % 3]

projectCard(projectId) ==
    [mvReq |-> 1 + (projectId % 2), tfReq |-> 2,
     rewards |-> [growth |-> 1 + (projectId % 3), fuel |-> 1 + (projectId % 2)],
     restartBurdenTailwind |-> 1]

\* macroEventLookup[id].ruleModifiers, as a set of <<name, value>> pairs
macroRuleModifiers(eventId) ==
    IF eventId = "macro-m5" THEN {<<"headcountPenalty", 1>>} ELSE {<<"tailwindBonus", 2>>}

(***************************************************************************)
(* Seat credentials: randomSeatToken / hashToken.                          *)
(***************************************************************************)
seatToken(seat) == <<"token", seat>>
BadToken == <<"token", "forged">>
hashToken(token) == <<"sha256", token>>

\* any token accepted
isSeatTokenValid_Always(seatState, token) == TRUE

isSeatTokenValid(seatState, token) ==
    IF "token" \in DOMAIN seatState
    THEN seatState.token = token
    ELSE IF "tokenHash" \in DOMAIN seatState
         THEN seatState.tokenHash = hashToken(token)
         ELSE FALSE

(***************************************************************************)
(* Room creation.                                                          *)
(***************************************************************************)
PlayerSeatsOf(n) == {SEAT_ORDER[i] : i \in 1..n}

\* roomSetup.js draw(deck, count): returns the first count ids and removes
\* them from the draw pile (the discard pile is not touched)
draw(deck, count) ==
    [cards |-> Take(deck.drawPile, count),
     deck |-> [deck EXCEPT !.drawPile = Drop(deck.drawPile, count)]]

buildInitialDeckState(n, projectOrder, assetOrder, macroOrder) ==
    LET p0 == [drawPile |-> projectOrder, discardPile |-> <<>>]
        a0 == [drawPile |-> assetOrder, discardPile |-> <<>>]
        m0 == [drawPile |-> macroOrder, discardPile |-> <<>>]
        pm == draw(p0, ProjectMarketSize)
        am == draw(a0, AssetMarketSize)
        dealt == [i \in 1..n |->
                    SubSeq(am.deck.drawPile, DealSize * (i - 1) + 1, DealSize * i)]
        a1 == [am.deck EXCEPT !.drawPile = Drop(am.deck.drawPile, DealSize * n)]
    IN [decks |-> [projects |-> pm.deck, assetsRound1 |-> a1, macroEvents |-> m0],
        market |-> [availableProjects |-> pm.cards, availableAssets |-> am.cards],
        dealQueue |-> [s \in PlayerSeatsOf(n) |->
                         dealt[CHOOSE i \in 1..n : SEAT_ORDER[i] = s]]]

initialSeat(seat) ==
    [connected |-> FALSE,
     handSize |-> InitialHandSize,
     mustDiscard |-> FALSE,
     discardTarget |-> NullTarget,
     projects |-> <<>>,
     projectsStartedThisRound |-> 0,
     lastHandHash |-> "none",
     tokenHash |-> hashToken(seatToken(seat))]

buildInitialPublicState(n, projectOrder, assetOrder, macroOrder) ==
    LET setup == buildInitialDeckState(n, projectOrder, assetOrder, macroOrder)
    IN [version |-> 1,
        currentRound |-> 1,
        totalRounds |-> TotalRounds,
        currentSeat |-> "A",
        turnNonce |-> 1,
        seats |-> [s \in PlayerSeatsOf(n) |-> initialSeat(s)],
        market |-> setup.market,
        turnCount |-> 0,
        pendingRoundAdvance |-> FALSE,
        mustDiscardBySeat |-> [s \in PlayerSeatsOf(n) |-> 0],
        macroEvent |-> NoMacro,
        roundModifiers |-> <<>>,
        gameOver |-> FALSE,
        finalScoring |-> <<>>,
        decks |-> setup.decks,
        dealQueue |-> setup.dealQueue,
        log |-> <<>>]

(***************************************************************************)
(* Turn / round state machine (api/_lib/roomReducer.js).                   *)
(***************************************************************************)
\* Array.prototype.sort(seatSort) over seat keys taken from SEAT_ORDER
seatSort(seatSet) == SelectSeq(SEAT_ORDER, LAMBDA s : s \in seatSet)

\* every configured seat counted as joined, connected or not
getJoinedSeatOrder_AllSeats(seats) == seatSort(DOMAIN seats)

getJoinedSeatOrder(seats) ==
    LET connectedSeats == {s \in DOMAIN seats : seats[s].connected}
    IN IF connectedSeats # {} THEN seatSort(connectedSeats) ELSE seatSort(DOMAIN seats)

IndexOf(s, x) == IF Includes(s, x) THEN CHOOSE i \in DOMAIN s : s[i] = x ELSE 0

\* the index not wrapped: the last seat keeps the turn
getNextSeat_NoWrap(joinedSeats, currentSeat) ==
    LET currentIndex == IndexOf(joinedSeats, currentSeat)
    IN IF currentIndex = 0 THEN joinedSeats[1]
       ELSE IF currentIndex = Len(joinedSeats) THEN currentSeat
       ELSE joinedSeats[currentIndex + 1]

getNextSeat(joinedSeats, currentSeat) ==
    LET currentIndex == IndexOf(joinedSeats, currentSeat)
    IN IF currentIndex = 0
       THEN joinedSeats[1]
       ELSE joinedSeats[(currentIndex % Len(joinedSeats)) + 1]

\* the round ends one END_TURN late
shouldAdvanceRound_Late(room, joinedSeats, actionType) ==
    IF actionType = "ADVANCE_ROUND" THEN TRUE
    ELSE IF Len(room.decks.projects.drawPile) = 0 THEN TRUE
    ELSE room.turnCount + 1 > Len(joinedSeats) * FULL_TURN_ROUND_ADVANCE

shouldAdvanceRound(room, joinedSeats, actionType) ==
    IF actionType = "ADVANCE_ROUND" THEN TRUE
    ELSE IF Len(room.decks.projects.drawPile) = 0 THEN TRUE
    ELSE room.turnCount + 1 >= Len(joinedSeats) * FULL_TURN_ROUND_ADVANCE

drawMacroEvent(decks) ==
    LET macroDeck == decks.macroEvents
    IN IF Len(macroDeck.drawPile) = 0
       THEN [macroEvent |-> NoMacro, decks |-> decks]
       ELSE [macroEvent |-> Head(macroDeck.drawPile),
             decks |-> [decks EXCEPT !.macroEvents =
                          [drawPile |-> Tail(macroDeck.drawPile),
                           discardPile |-> Append(macroDeck.discardPile,
                                                  Head(macroDeck.drawPile))]]]

\* the seats behind the lead owe a discard even when the lead is shared
computeMustDiscardBySeat_TiedLead(room, joinedSeats) ==
    LET joined == SeqToSet(joinedSeats)
        started(s) == room.seats[s].projectsStartedThisRound
        maxStarted == CHOOSE m \in {started(s) : s \in joined} \cup {0} :
                        \A k \in {started(s) : s \in joined} \cup {0} : k <= m
        leaders == {s \in joined : started(s) = maxStarted}
    IN IF maxStarted <= 0
       THEN [s \in DOMAIN room.seats |-> 0]
       ELSE [s \in DOMAIN room.seats |-> IF s \in joined /\ s \notin leaders THEN 1 ELSE 0]

computeMustDiscardBySeat(room, joinedSeats) ==
    LET joined == SeqToSet(joinedSeats)
        started(s) == room.seats[s].projectsStartedThisRound
        maxStarted == CHOOSE m \in {started(s) : s \in joined} \cup {0} :
                        \A k \in {started(s) : s \in joined} \cup {0} : k <= m
        leaders == {s \in joined : started(s) = maxStarted}
    IN IF Cardinality(leaders) # 1 \/ maxStarted <= 0
       THEN [s \in DOMAIN room.seats |-> 0]
       ELSE [s \in DOMAIN room.seats |-> IF s \in joined /\ s \notin leaders THEN 1 ELSE 0]

\* debts are never seen as outstanding
hasOutstandingRoundDiscards_Never(mustDiscardBySeat, joinedSeats) == FALSE

hasOutstandingRoundDiscards(mustDiscardBySeat, joinedSeats) ==
    \E s \in SeqToSet(joinedSeats) : mustDiscardBySeat[s] > 0

\* the game goes on until the round counter has passed totalRounds
isGameOver_PastTotal(room) == room.currentRound > room.totalRounds

\* const gameOver = currentRound >= totalRounds
isGameOver(room) == room.currentRound >= room.totalRounds

\* a completed project rewarded once, TF like MV
rewardTimes_Once(projectState) ==
    IF projectState.stage = "MV" \/ projectState.stage = "TF" THEN 1 ELSE 0

\* how often the loop adds a project's rewards: once for MV or TF, again for TF
rewardTimes(projectState) ==
    (IF projectState.stage = "MV" \/ projectState.stage = "TF" THEN 1 ELSE 0)
    + (IF projectState.stage = "TF" THEN 1 ELSE 0)

computeSeatScoring(seatState) ==
    LET ps == seatState.projects
        completedMV(p) == p.stage = "MV" \/ p.stage = "TF"
        growth == SumSeq([i \in DOMAIN ps |->
                            rewardTimes(ps[i]) * projectCard(ps[i].id).rewards.growth])
        fuel == SumSeq([i \in DOMAIN ps |->
                          rewardTimes(ps[i]) * projectCard(ps[i].id).rewards.fuel])
        pausedOrAbandonedCount ==
            Cardinality({i \in DOMAIN ps : ps[i].paused \/ ps[i].abandonedPenaltyCount > 0})
        lower == Min(growth, fuel)
        upper == Max(growth, fuel)
        baseScore == lower + ((upper - lower) \div 3)
    IN [growth |-> growth,
        fuel |-> fuel,
        mvCompletedCount |-> Cardinality({i \in DOMAIN ps : completedMV(ps[i])}),
        tfCompletedCount |-> Cardinality({i \in DOMAIN ps : ps[i].stage = "TF"}),
        pausedOrAbandonedCount |-> pausedOrAbandonedCount,
        baseScore |-> baseScore,
        finalScore |-> baseScore - pausedOrAbandonedCount]

computeFinalScoring(room, joinedSeats) ==
    LET joined == SeqToSet(joinedSeats)
        bySeat == [s \in joined |-> computeSeatScoring(room.seats[s])]
        scores == {bySeat[s].finalScore : s \in joined} \cup {0}
        bestScore == CHOOSE m \in scores : \A k \in scores : k <= m
        winners == SelectSeq(joinedSeats, LAMBDA s : bySeat[s].finalScore = bestScore)
    IN [bySeat |-> bySeat, winners |-> winners, isTie |-> Len(winners) > 1]

\* the entry with the event's declared modifiers only
roundModifierEntry_DeclaredOnly(eventId) ==
    [source |-> eventId,
     ruleModifiers |-> macroRuleModifiers(eventId),
     handLimit |-> 0,
     tailwindPickBonus |-> 0]

roundModifierEntry(eventId) ==
    [source |-> eventId,
     ruleModifiers |-> macroRuleModifiers(eventId),
     handLimit |-> IF eventId = "macro-m5" THEN MacroM5HandLimit ELSE 0,
     tailwindPickBonus |-> IF eventId = "macro-m6" THEN 1 ELSE 0]

\* the debt computed afresh at every boundary, paid or not
mustDiscardBySeatAtBoundary_Recomputed(room, joinedSeats) ==
    computeMustDiscardBySeat(room, joinedSeats)

\* const mustDiscardBySeat = pendingRoundAdvance && !hasOutstanding... ? current : compute
mustDiscardBySeatAtBoundary(room, joinedSeats) ==
    IF room.pendingRoundAdvance
       /\ ~hasOutstandingRoundDiscards(room.mustDiscardBySeat, joinedSeats)
    THEN room.mustDiscardBySeat
    ELSE computeMustDiscardBySeat(room, joinedSeats)

\* reduceRoomState(room, action) for END_TURN and ADVANCE_ROUND; ok = FALSE
\* stands for a thrown Error
reduceRoomState(room, actionType) ==
    LET joinedSeats == getJoinedSeatOrder(room.seats)
        pendingRoundAdvance == room.pendingRoundAdvance
        currentMustDiscardBySeat == room.mustDiscardBySeat
        advanceRound == pendingRoundAdvance \/ shouldAdvanceRound(room, joinedSeats, actionType)
        mustDiscardBySeat == mustDiscardBySeatAtBoundary(room, joinedSeats)
        zeroDebts == [s \in DOMAIN room.seats |-> 0]
        nextRound == Min(room.currentRound + 1, room.totalRounds)
        macroTransition ==
            IF nextRound = 2 \/ nextRound = 3
            THEN drawMacroEvent(room.decks)
            ELSE [macroEvent |-> room.macroEvent, decks |-> room.decks]
    IN IF actionType = "ADVANCE_ROUND" /\ pendingRoundAdvance
          /\ hasOutstandingRoundDiscards(currentMustDiscardBySeat, joinedSeats)
       THEN [ok |-> FALSE,
             error |-> "Round-end discards must be completed before starting the next round.",
             room |-> room]
       ELSE IF ~advanceRound
       THEN [ok |-> TRUE, error |-> "",
             room |-> [room EXCEPT !.currentSeat = getNextSeat(joinedSeats, room.currentSeat),
                                   !.turnCount = room.turnCount + 1,
                                   !.version = room.version + 1]]
       ELSE IF hasOutstandingRoundDiscards(mustDiscardBySeat, joinedSeats)
       THEN [ok |-> TRUE, error |-> "",
             room |-> [room EXCEPT !.pendingRoundAdvance = TRUE,
                                   !.mustDiscardBySeat = mustDiscardBySeat,
                                   !.version = room.version + 1]]
       ELSE IF isGameOver(room)
       THEN [ok |-> TRUE, error |-> "",
             room |-> [room EXCEPT !.pendingRoundAdvance = FALSE,
                                   !.mustDiscardBySeat = zeroDebts,
                                   !.gameOver = TRUE,
                                   !.finalScoring = <<computeFinalScoring(room, joinedSeats)>>,
                                   !.version = room.version + 1]]
       ELSE [ok |-> TRUE, error |-> "",
             room |-> [room EXCEPT
                         !.seats = [s \in DOMAIN room.seats |->
                                      [room.seats[s] EXCEPT !.projectsStartedThisRound = 0]],
                         !.currentSeat = joinedSeats[1],
                         !.currentRound = nextRound,
                         !.pendingRoundAdvance = FALSE,
                         !.mustDiscardBySeat = zeroDebts,
                         !.turnCount = 0,
                         !.macroEvent = macroTransition.macroEvent,
                         !.roundModifiers =
                             IF macroTransition.macroEvent # NoMacro
                             THEN <<roundModifierEntry(macroTransition.macroEvent)>>
                             ELSE room.roundModifiers,
                         !.decks = macroTransition.decks,
                         !.gameOver = FALSE,
                         !.finalScoring = <<>>,
                         !.version = room.version + 1]]

(***************************************************************************)
(* Action applier (api/rooms/[id]/act.js).  Every applier returns          *)
(* [ok, error, room, privateDelta]; ok = FALSE stands for a thrown Error,   *)
(* privateDelta is <<>> for null and <<delta>> otherwise.                   *)
(***************************************************************************)
Thrown(room, message) == [ok |-> FALSE, error |-> message, room |-> room, privateDelta |-> <<>>]
Applied(nextRoom, delta) == [ok |-> TRUE, error |-> "", room |-> nextRoom, privateDelta |-> delta]
Delta(seat, added, removed) ==
    <<[seat |-> seat, addedCardIds |-> added, removedCardIds |-> removed]>>

\* the drawn card leaves the draw pile and is put on no pile
drawTop_NoDiscard(deckState) ==
    IF Len(deckState.drawPile) = 0
    THEN [cardId |-> NullCard, nextDeck |-> deckState]
    ELSE [cardId |-> Head(deckState.drawPile),
          nextDeck |-> [drawPile |-> Tail(deckState.drawPile),
                        discardPile |-> deckState.discardPile]]

drawTop(deckState) ==
    IF Len(deckState.drawPile) = 0
    THEN [cardId |-> NullCard, nextDeck |-> deckState]
    ELSE [cardId |-> Head(deckState.drawPile),
          nextDeck |-> [drawPile |-> Tail(deckState.drawPile),
                        discardPile |-> Append(deckState.discardPile,
                                               Head(deckState.drawPile))]]

\* src/gameCore/decks.ts drawFromDeck(decks, deck), the draw of DRAW_CARD;
\* ok = FALSE stands for the Error thrown on an empty deck
drawFromDeck(decks, deck) ==
    IF Len(decks[deck].drawPile) = 0
    THEN [ok |-> FALSE, cardId |-> NullCard, decks |-> decks]
    ELSE [ok |-> TRUE,
          cardId |-> Head(decks[deck].drawPile),
          decks |-> [decks EXCEPT ![deck] =
                       [drawPile |-> Tail(decks[deck].drawPile),
                        discardPile |-> Append(decks[deck].discardPile,
                                               Head(decks[deck].drawPile))]]]

\* while (nextAvailable.length < size) { drawTop ... }
RECURSIVE refillMarket(_, _, _)
refillMarket(available, deckState, size) ==
    IF Len(available) < size /\ Len(deckState.drawPile) > 0
    THEN refillMarket(Append(available, drawTop(deckState).cardId),
                      drawTop(deckState).nextDeck, size)
    ELSE [available |-> available, deck |-> deckState]

\* the base limit whatever the round modifiers say
getRoundModifierValue_Base(room) == DefaultHandLimit

\* getRoundModifierValue(room, 'handLimit', 7): the hand limit of the active
\* round modifiers, 7 when none overrides it
getRoundModifierValue(room) ==
    IF \E i \in DOMAIN room.roundModifiers : room.roundModifiers[i].handLimit > 0
    THEN LET i == CHOOSE j \in DOMAIN room.roundModifiers :
                     room.roundModifiers[j].handLimit > 0
         IN room.roundModifiers[i].handLimit
    ELSE DefaultHandLimit

applyPickAsset(room, seat, action) ==
    LET availableAssets == room.market.availableAssets
        eligibleMarketAssets == SelectSeq(availableAssets, isAssetEligible)
        selectedMarketCardId ==
            IF action.cardId # NullCard /\ Includes(eligibleMarketAssets, action.cardId)
            THEN action.cardId
            ELSE IF Len(eligibleMarketAssets) > 0 THEN eligibleMarketAssets[1] ELSE NullCard
        drawResult == drawTop(room.decks.assetsRound1)
        pickedCardId ==
            IF selectedMarketCardId # NullCard THEN selectedMarketCardId ELSE drawResult.cardId
        afterPickAssets ==
            IF selectedMarketCardId # NullCard
            THEN Without(availableAssets, selectedMarketCardId)
            ELSE availableAssets
        afterPickDeck ==
            IF selectedMarketCardId # NullCard
            THEN room.decks.assetsRound1
            ELSE drawResult.nextDeck
        refill == refillMarket(afterPickAssets, afterPickDeck, AssetMarketSize)
        nextHandSize == room.seats[seat].handSize + 1
        limit == getRoundModifierValue(room)
        mustDiscard == nextHandSize > limit
    IN IF pickedCardId = NullCard
       THEN Thrown(room, "No asset cards available to pick or draw.")
       ELSE Applied([room EXCEPT
                       !.seats[seat].handSize = nextHandSize,
                       !.seats[seat].mustDiscard = mustDiscard,
                       !.seats[seat].discardTarget = IF mustDiscard THEN limit ELSE NullTarget,
                       !.market.availableAssets = refill.available,
                       !.decks.assetsRound1 = refill.deck],
                    Delta(seat, <<pickedCardId>>, <<>>))

\* a project that starts out paused
newProjectInstance_Paused(projectId) ==
    [id |-> projectId,
     allocatedTotals |-> [budget |-> 0, headcount |-> 0, tailwind |-> 0],
     allocatedCardIds |-> <<>>,
     stage |-> "NONE",
     paused |-> TRUE,
     restartBurdenTailwind |-> 0,
     abandonedPenaltyCount |-> 0]

newProjectInstance(projectId) ==
    [id |-> projectId,
     allocatedTotals |-> [budget |-> 0, headcount |-> 0, tailwind |-> 0],
     allocatedCardIds |-> <<>>,
     stage |-> "NONE",
     paused |-> FALSE,
     restartBurdenTailwind |-> 0,
     abandonedPenaltyCount |-> 0]

applyStartProject(room, seat, action) ==
    LET availableProjects == room.market.availableProjects
        selectedProjectId ==
            IF action.projectId # NullCard /\ Includes(availableProjects, action.projectId)
            THEN action.projectId
            ELSE NullCard
        refill == refillMarket(Without(availableProjects, selectedProjectId),
                               room.decks.projects, ProjectMarketSize)
    IN IF Len(availableProjects) = 0
       THEN Thrown(room, "No projects available to start.")
       ELSE IF selectedProjectId = NullCard
       THEN Thrown(room, "Selected project is not available in market.")
       ELSE Applied([room EXCEPT
                       !.seats[seat].projects =
                           Append(room.seats[seat].projects,
                                  newProjectInstance(selectedProjectId)),
                       !.seats[seat].projectsStartedThisRound =
                           room.seats[seat].projectsStartedThisRound + 1,
                       !.market.availableProjects = refill.available,
                       !.decks.projects = refill.deck],
                    <<>>)

\* thresholds that have to be exceeded, not just met
computeProjectStage_Strict(projectId, allocatedTotals) ==
    LET project == projectCard(projectId)
    IN IF allocatedTotals.tailwind > project.mvReq + project.tfReq THEN "TF"
       ELSE IF allocatedTotals.tailwind > project.mvReq THEN "MV"
       ELSE "NONE"

computeProjectStage(projectId, allocatedTotals) ==
    LET project == projectCard(projectId)
    IN IF allocatedTotals.tailwind >= project.mvReq + project.tfReq THEN "TF"
       ELSE IF allocatedTotals.tailwind >= project.mvReq THEN "MV"
       ELSE "NONE"

\* /^[a-f0-9]{64}$/i.test(action.handHash)
ValidHandHashes == {"hash-1", "hash-2"}
isHandHashValid(handHash) == handHash \in ValidHandHashes

RECURSIVE addOutcomes(_, _)
addOutcomes(totals, cardIds) ==
    IF cardIds = <<>> THEN totals
    ELSE addOutcomes([budget |-> totals.budget + assetOutcomes(Head(cardIds)).budget,
                      headcount |-> totals.headcount + assetOutcomes(Head(cardIds)).headcount,
                      tailwind |-> totals.tailwind + assetOutcomes(Head(cardIds)).tailwind],
                     Tail(cardIds))

applyAllocateToProject(room, seat, action) ==
    LET seatState == room.seats[seat]
        seatProjects == seatState.projects
        activeIdx == {i \in DOMAIN seatProjects :
                        ~seatProjects[i].paused /\ seatProjects[i].stage # "TF"}
        cardIds == action.cardIds
        matching == IF action.projectId # NullCard
                    THEN {i \in activeIdx : seatProjects[i].id = action.projectId}
                    ELSE activeIdx
        target == CHOOSE i \in matching : \A j \in matching : i <= j
        nextTotals == addOutcomes(seatProjects[target].allocatedTotals, cardIds)
    IN IF activeIdx = {}
       THEN Thrown(room, "Seat does not have an active project to allocate to.")
       ELSE IF Len(cardIds) = 0
       THEN Thrown(room, "Must provide at least one card id to allocate.")
       ELSE IF Cardinality(SeqToSet(cardIds)) # Len(cardIds)
       THEN Thrown(room, "Duplicate card ids are not allowed in allocation.")
       ELSE IF Len(cardIds) > seatState.handSize
       THEN Thrown(room, "Cannot allocate more cards than current hand size.")
       ELSE IF ~isHandHashValid(action.handHash)
       THEN Thrown(room, "Missing or invalid handHash proof.")
       ELSE IF matching = {}
       THEN Thrown(room, "Selected project is not active for this seat.")
       ELSE IF \E i \in DOMAIN cardIds : cardIds[i] \notin AssetIds
       THEN Thrown(room, "Unknown asset card id")
       ELSE Applied([room EXCEPT
                       !.seats[seat].handSize = seatState.handSize - Len(cardIds),
                       !.seats[seat].lastHandHash = action.handHash,
                       !.seats[seat].projects[target].allocatedTotals = nextTotals,
                       !.seats[seat].projects[target].allocatedCardIds =
                           seatProjects[target].allocatedCardIds \o cardIds,
                       !.seats[seat].projects[target].stage =
                           computeProjectStage(seatProjects[target].id, nextTotals)],
                    Delta(seat, <<>>, cardIds))

\* a pause that hands one card back, however many were allocated
applyPauseProject_OneCard(room, seat, action) ==
    LET seatState == room.seats[seat]
        seatProjects == seatState.projects
        candidates == IF action.projectId # NullCard
                      THEN {i \in DOMAIN seatProjects : seatProjects[i].id = action.projectId}
                      ELSE {i \in DOMAIN seatProjects : ~seatProjects[i].paused}
        target == CHOOSE i \in candidates : \A j \in candidates : i <= j
        allocatedCardIds == seatProjects[target].allocatedCardIds
    IN IF candidates = {}
       THEN Thrown(room, "No project available to pause.")
       ELSE IF seatProjects[target].paused
       THEN Thrown(room, "Project is already paused.")
       ELSE Applied([room EXCEPT
                       !.seats[seat].handSize = seatState.handSize + 1,
                       !.seats[seat].projects[target] =
                           [id |-> seatProjects[target].id,
                            allocatedTotals |-> [budget |-> 0, headcount |-> 0, tailwind |-> 0],
                            allocatedCardIds |-> <<>>,
                            stage |-> "NONE",
                            paused |-> TRUE,
                            restartBurdenTailwind |->
                                projectCard(seatProjects[target].id).restartBurdenTailwind,
                            abandonedPenaltyCount |-> 1]],
                    Delta(seat, allocatedCardIds, <<>>))

applyPauseProject(room, seat, action) ==
    LET seatState == room.seats[seat]
        seatProjects == seatState.projects
        candidates == IF action.projectId # NullCard
                      THEN {i \in DOMAIN seatProjects : seatProjects[i].id = action.projectId}
                      ELSE {i \in DOMAIN seatProjects : ~seatProjects[i].paused}
        target == CHOOSE i \in candidates : \A j \in candidates : i <= j
        allocatedCardIds == seatProjects[target].allocatedCardIds
    IN IF candidates = {}
       THEN Thrown(room, "No project available to pause.")
       ELSE IF seatProjects[target].paused
       THEN Thrown(room, "Project is already paused.")
       ELSE Applied([room EXCEPT
                       !.seats[seat].handSize = seatState.handSize + Len(allocatedCardIds),
                       !.seats[seat].projects[target] =
                           [id |-> seatProjects[target].id,
                            allocatedTotals |-> [budget |-> 0, headcount |-> 0, tailwind |-> 0],
                            allocatedCardIds |-> <<>>,
                            stage |-> "NONE",
                            paused |-> TRUE,
                            restartBurdenTailwind |->
                                projectCard(seatProjects[target].id).restartBurdenTailwind,
                            abandonedPenaltyCount |-> 1]],
                    Delta(seat, allocatedCardIds, <<>>))

\* getRoundDiscardDebt(room, seat): the seat's outstanding round-end debt
getRoundDiscardDebt(room, seat) ==
    IF seat \in DOMAIN room.mustDiscardBySeat THEN room.mustDiscardBySeat[seat] ELSE 0

\* the debt counted down past zero
payRoundDiscardDebt_NoFloor(room, seat) ==
    [room.mustDiscardBySeat EXCEPT ![seat] = getRoundDiscardDebt(room, seat) - 1]

\* a discard that pays one unit of every seat's debt
payRoundDiscardDebt_Everyone(room, seat) ==
    [s \in DOMAIN room.mustDiscardBySeat |-> Max(room.mustDiscardBySeat[s] - 1, 0)]

\* DISCARD_ASSET pays one unit of the seat's round-end debt, floor 0
payRoundDiscardDebt(room, seat) ==
    [room.mustDiscardBySeat EXCEPT ![seat] = Max(getRoundDiscardDebt(room, seat) - 1, 0)]

\* a discard that does not look at the hand size
applyDiscardAsset_Unchecked(room, seat, action) ==
    LET seatState == room.seats[seat]
        nextHandSize == seatState.handSize - 1
        discardTarget == IF seatState.discardTarget # NullTarget
                         THEN seatState.discardTarget
                         ELSE DefaultHandLimit
        mustDiscard == nextHandSize > discardTarget
    IN IF action.cardId = NullCard
       THEN Thrown(room, "Missing discard card id.")
       ELSE Applied([room EXCEPT
                       !.seats[seat].handSize = nextHandSize,
                       !.seats[seat].mustDiscard = mustDiscard,
                       !.seats[seat].discardTarget =
                           IF mustDiscard THEN discardTarget ELSE NullTarget,
                       !.mustDiscardBySeat = payRoundDiscardDebt(room, seat)],
                    Delta(seat, <<>>, <<action.cardId>>))

applyDiscardAsset(room, seat, action) ==
    LET seatState == room.seats[seat]
        currentHandSize == seatState.handSize
        nextHandSize == currentHandSize - 1
        discardTarget == IF seatState.discardTarget # NullTarget
                         THEN seatState.discardTarget
                         ELSE DefaultHandLimit
        mustDiscard == nextHandSize > discardTarget
    IN IF currentHandSize <= 0
       THEN Thrown(room, "No cards available to discard.")
       ELSE IF action.cardId = NullCard
       THEN Thrown(room, "Missing discard card id.")
       ELSE Applied([room EXCEPT
                       !.seats[seat].handSize = nextHandSize,
                       !.seats[seat].mustDiscard = mustDiscard,
                       !.seats[seat].discardTarget =
                           IF mustDiscard THEN discardTarget ELSE NullTarget,
                       !.mustDiscardBySeat = payRoundDiscardDebt(room, seat)],
                    Delta(seat, <<>>, <<action.cardId>>))

\* a pick that is counted as a turn
applyRoomAction_PickEndsTurn(room, seat, action) ==
    IF action.type \in {"END_TURN", "ADVANCE_ROUND"}
    THEN LET reduced == reduceRoomState(room, action.type)
         IN [ok |-> reduced.ok, error |-> reduced.error, room |-> reduced.room,
             privateDelta |-> <<>>]
    ELSE IF action.type = "PICK_ASSET"
    THEN LET picked == applyPickAsset(room, seat, action)
         IN IF picked.ok
            THEN [picked EXCEPT !.room.turnCount = room.turnCount + 1]
            ELSE picked
    ELSE IF action.type = "START_PROJECT" THEN applyStartProject(room, seat, action)
    ELSE IF action.type = "ALLOCATE_TO_PROJECT" THEN applyAllocateToProject(room, seat, action)
    ELSE IF action.type = "PAUSE_PROJECT" THEN applyPauseProject(room, seat, action)
    ELSE IF action.type = "DISCARD_ASSET" THEN applyDiscardAsset(room, seat, action)
    ELSE Thrown(room, "Unsupported action type")

applyRoomAction(room, seat, action) ==
    IF action.type \in {"END_TURN", "ADVANCE_ROUND"}
    THEN LET reduced == reduceRoomState(room, action.type)
         IN [ok |-> reduced.ok, error |-> reduced.error, room |-> reduced.room,
             privateDelta |-> <<>>]
    ELSE IF action.type = "PICK_ASSET" THEN applyPickAsset(room, seat, action)
    ELSE IF action.type = "START_PROJECT" THEN applyStartProject(room, seat, action)
    ELSE IF action.type = "ALLOCATE_TO_PROJECT" THEN applyAllocateToProject(room, seat, action)
    ELSE IF action.type = "PAUSE_PROJECT" THEN applyPauseProject(room, seat, action)
    ELSE IF action.type = "DISCARD_ASSET" THEN applyDiscardAsset(room, seat, action)
    ELSE Thrown(room, "Unsupported action type")

(***************************************************************************)
(* Public projection (api/_lib/publicRoomState.js).                        *)
(***************************************************************************)
\* the seats stripped of their credentials, the deal queue left in
toPublicRoomState_WithDeals(room) ==
    LET publicSeat(seatState) ==
            [k \in DOMAIN seatState \ {"token", "tokenHash"} |-> seatState[k]]
    IN [room EXCEPT !.seats = [s \in DOMAIN room.seats |-> publicSeat(room.seats[s])]]

toPublicRoomState(room) ==
    LET publicSeat(seatState) ==
            [k \in DOMAIN seatState \ {"token", "tokenHash"} |-> seatState[k]]
        publicSeats == [s \in DOMAIN room.seats |-> publicSeat(room.seats[s])]
    IN [k \in DOMAIN room \ {"dealQueue"} |->
          IF k = "seats" THEN publicSeats ELSE room[k]]

(***************************************************************************)
(* The act handler between its GET and its PATCH                           *)
(* (api/rooms/[id]/act.js, handler).                                       *)
(***************************************************************************)
CodeActionTypes ==
    {"END_TURN", "PICK_ASSET", "DISCARD_ASSET", "START_PROJECT",
     "ALLOCATE_TO_PROJECT", "PAUSE_PROJECT"}
RoundActionTypes == {"ADVANCE_ROUND"}
SupportedActionTypes == CodeActionTypes \cup RoundActionTypes

\* the action type not looked at
validateActRequest_AnyType(req) ==
    IF req.shape = "missingSeatOrToken" THEN "Missing seat or token."
    ELSE IF req.shape = "invalidVersion" THEN "Missing or invalid expectedVersion."
    ELSE IF req.shape = "missingAction" THEN "Missing action."
    ELSE ""

\* request-shape validation, before any store access; "" when well formed
validateActRequest(req) ==
    IF req.shape = "missingSeatOrToken" THEN "Missing seat or token."
    ELSE IF req.shape = "invalidVersion" THEN "Missing or invalid expectedVersion."
    ELSE IF req.shape = "missingAction" THEN "Missing action."
    ELSE IF req.action.type \notin SupportedActionTypes THEN "Unsupported action type."
    ELSE ""

\* the nonce guard dropped
turnNonceMatches_Always(room, req) == TRUE

\* the turn nonce the request captured is still the room's
turnNonceMatches(room, req) == req.expectedTurnNonce = room.turnNonce

\* the round-end gate dropped
pendingRoundDiscards_Never(room) == FALSE

\* round-end discards are pending: only DISCARD_ASSET is accepted
pendingRoundDiscards(room) ==
    room.pendingRoundAdvance /\ \E s \in DOMAIN room.mustDiscardBySeat :
                                   room.mustDiscardBySeat[s] > 0

\* the seat carries discard debt: hand-limit flag or round-end debt
discardRequired(room, seat) ==
    room.seats[seat].mustDiscard \/ getRoundDiscardDebt(room, seat) > 0

\* a fresh nonce whenever the applied action moved the turn
\* the nonce written back as it was read
nextTurnNonce_Kept(room, nextRoom) == room.turnNonce

nextTurnNonce(room, nextRoom) ==
    IF nextRoom.currentSeat # room.currentSeat
       \/ nextRoom.currentRound # room.currentRound
       \/ nextRoom.turnCount # room.turnCount
    THEN room.turnNonce + 1
    ELSE room.turnNonce

\* the entry written without the seat that acted
logEntry_NoSeat(seat, action) == [seat |-> "", type |-> action.type]

\* { at, seat, type: action.type } behind the entries read
logEntry(seat, action) == [seat |-> seat, type |-> action.type]

Respond(status, error, body) ==
    [write |-> FALSE, status |-> status, error |-> error, body |-> body,
     privateDelta |-> <<>>, updatedRoom |-> <<>>]

\* the version guard dropped
versionMatches_Always(room, req) == TRUE

\* Number(room.version ?? 0) !== expectedVersion
versionMatches(room, req) == room.version = req.expectedVersion

\* any discard passes the turn check, owed or not
canDiscardOutOfTurn_AnyDiscard(room, seat, action) == action.type = "DISCARD_ASSET"

\* canDiscardOutOfTurn = action.type === 'DISCARD_ASSET' && discardRequired
canDiscardOutOfTurn(room, seat, action) ==
    action.type = "DISCARD_ASSET" /\ discardRequired(room, seat)

\* END_TURN never held back by discard debt
endTurnBlocked_Never(room, seat, action) == FALSE

\* action.type === 'END_TURN' && discardRequired
endTurnBlocked(room, seat, action) ==
    action.type = "END_TURN" /\ discardRequired(room, seat)

\* the version counted from the applier's room, which END_TURN already bumped
nextVersion_FromTransition(room, transition) == transition.room.version + 1

\* version: Number(room.version ?? 0) + 1
nextVersion(room, transition) == room.version + 1

\* the checks in the handler's order, given what the applier makes of the action
checkThenApply(room, req, transition) ==
    LET seat == req.seat
        action == req.action
        updatedRoom == [transition.room EXCEPT
                          !.version = nextVersion(room, transition),
                          !.turnNonce = nextTurnNonce(room, transition.room),
                          !.log = Append(room.log, logEntry(seat, action))]
    IN IF seat \notin DOMAIN room.seats
       THEN Respond(403, "Seat not found in room.", <<>>)
       ELSE IF ~isSeatTokenValid(room.seats[seat], req.token)
       THEN Respond(403, "Invalid seat token.", <<>>)
       ELSE IF ~versionMatches(room, req)
       THEN Respond(409, "Version mismatch.", <<toPublicRoomState(room)>>)
       ELSE IF ~turnNonceMatches(room, req)
       THEN Respond(409, "Turn nonce mismatch.", <<toPublicRoomState(room)>>)
       ELSE IF room.currentSeat # seat /\ ~canDiscardOutOfTurn(room, seat, action)
       THEN Respond(409, "Not your turn.", <<toPublicRoomState(room)>>)
       ELSE IF pendingRoundDiscards(room) /\ action.type # "DISCARD_ASSET"
       THEN Respond(409, "Round-end discards are pending.", <<toPublicRoomState(room)>>)
       ELSE IF endTurnBlocked(room, seat, action)
       THEN Respond(409, "Must discard down to limit before ending turn.",
                    <<toPublicRoomState(room)>>)
       ELSE IF ~transition.ok
       THEN Respond(500, transition.error, <<>>)
       ELSE [write |-> TRUE, status |-> 200, error |-> "",
             body |-> <<toPublicRoomState(updatedRoom)>>,
             privateDelta |-> transition.privateDelta,
             updatedRoom |-> <<updatedRoom>>]

\* outcome of the handler on the room it read: either a response without any
\* write, or the document to PATCH
handleAct(room, req) ==
    checkThenApply(room, req, applyRoomAction(room, req.seat, req.action))

(***************************************************************************)
(* The join handler between its GET and its PATCH                          *)
(* (api/rooms/[id]/join.js, handler).                                      *)
(***************************************************************************)
validateJoinRequest(req) ==
    IF req.shape = "missingSeatOrToken" THEN "Missing seat or token." ELSE ""

\* the join that answers with the deal and leaves it queued
handleJoin_KeepsDeal(room, req) ==
    LET seat == req.seat
        updatedRoom == [room EXCEPT !.seats[seat].connected = TRUE]
    IN IF seat \notin DOMAIN room.seats
       THEN Respond(403, "Seat not found in room.", <<>>)
       ELSE IF ~isSeatTokenValid(room.seats[seat], req.token)
       THEN Respond(403, "Invalid seat token.", <<>>)
       ELSE [write |-> TRUE, status |-> 200, error |-> "",
             body |-> <<toPublicRoomState(updatedRoom)>>,
             privateDelta |-> Delta(seat, room.dealQueue[seat], <<>>),
             updatedRoom |-> <<updatedRoom>>]

handleJoin(room, req) ==
    LET seat == req.seat
        updatedRoom == [room EXCEPT !.seats[seat].connected = TRUE,
                                    !.dealQueue[seat] = <<>>]
    IN IF seat \notin DOMAIN room.seats
       THEN Respond(403, "Seat not found in room.", <<>>)
       ELSE IF ~isSeatTokenValid(room.seats[seat], req.token)
       THEN Respond(403, "Invalid seat token.", <<>>)
       ELSE [write |-> TRUE, status |-> 200, error |-> "",
             body |-> <<toPublicRoomState(updatedRoom)>>,
             privateDelta |-> Delta(seat, room.dealQueue[seat], <<>>),
             updatedRoom |-> <<updatedRoom>>]

(***************************************************************************)
(* The gist store: one document with an entity tag; a PATCH carrying       *)
(* If-Match is applied only when the tag still matches.                    *)
(***************************************************************************)
storePatch(st, ifMatch, document) ==
    IF ifMatch = 0 \/ ifMatch = st.etag
    THEN [ok |-> TRUE, store |-> [room |-> document, etag |-> st.etag + 1]]
    ELSE [ok |-> FALSE, store |-> st]

\* the PATCH sent without its precondition
ifMatchHeader_Unconditional(sourceEtag) == 0

\* if (sourceEtag) patchHeaders['If-Match'] = sourceEtag   (0: no header)
ifMatchHeader(sourceEtag) == sourceEtag

\* the 409 answered from the room the handler read, without reading again
conflictBody_FromRead(latestRoom, readRoom) == <<toPublicRoomState(readRoom)>>

\* loadLatestRoom + the 409 body of a lost write race
conflictBody(latestRoom, readRoom) == <<toPublicRoomState(latestRoom)>>

(***************************************************************************)
(* Requests the clients may send.                                          *)
(***************************************************************************)
Slots == 1..NumSlots
PlayerSeats == PlayerSeatsOf(PlayerCount)
RequestSeats == PlayerSeats \cup {"Z"}
RequestShapes == {"ok", "missingSeatOrToken", "invalidVersion", "missingAction"}

Action(type, cardId, projectId, cardIds, handHash) ==
    [type |-> type, cardId |-> cardId, projectId |-> projectId,
     cardIds |-> cardIds, handHash |-> handHash]

ActionChoices ==
    {Action(t, NullCard, NullCard, <<>>, "none") :
        t \in {"END_TURN", "ADVANCE_ROUND", "PAUSE_PROJECT"}}
    \cup {Action("PICK_ASSET", c, NullCard, <<>>, "none") : c \in {NullCard, 3}}
    \cup {Action("DISCARD_ASSET", c, NullCard, <<>>, "none") : c \in {NullCard, 1}}
    \cup {Action("START_PROJECT", NullCard, p, <<>>, "none") : p \in {1, NumProjects}}
    \cup {Action("ALLOCATE_TO_PROJECT", NullCard, NullCard, cs, "hash-1") :
            cs \in {<<>>, <<4>>, <<4, 4>>, <<4, 5, 1>>}}
    \cup {Action("ALLOCATE_TO_PROJECT", NullCard, NullCard, <<4>>, "bad")}

RaceActionChoices ==
    {Action(t, NullCard, NullCard, <<>>, "none") : t \in {"END_TURN", "ADVANCE_ROUND"}}
    \cup {Action("PICK_ASSET", NullCard, NullCard, <<>>, "none"),
          Action("DISCARD_ASSET", 1, NullCard, <<>>, "none"),
          Action("DISCARD_ASSET", NullCard, NullCard, <<>>, "none"),
          Action("START_PROJECT", NullCard, 1, <<>>, "none"),
          Action("ALLOCATE_TO_PROJECT", NullCard, NullCard, <<4>>, "hash-1"),
          Action("PAUSE_PROJECT", NullCard, NullCard, <<>>, "none")}

UnknownAction == Action("RESTART_PROJECT", NullCard, NullCard, <<>>, "none")

\* what is wrong with a request, if anything
RequestFaults == {"none", "forgedToken", "staleVersion", "staleNonce"}

ActRequest(room, shape, seat, fault, action) ==
    [shape |-> shape, seat |-> seat,
     token |-> IF fault = "forgedToken" THEN BadToken ELSE seatToken(seat),
     expectedVersion |-> IF fault = "staleVersion" THEN room.version - 1 ELSE room.version,
     expectedTurnNonce |-> IF fault = "staleNonce" THEN room.turnNonce - 1
                           ELSE room.turnNonce,
     action |-> action]

WellFormedActRequests(room, actions) ==
    {ActRequest(room, "ok", s, f, a) : s \in PlayerSeats, f \in RequestFaults, a \in actions}
    \cup {ActRequest(room, "ok", "Z", "none", a) : a \in {Action("END_TURN", NullCard, NullCard, <<>>, "none")}}

MalformedActRequests(room) ==
    {ActRequest(room, sh, "A", "none", Action("END_TURN", NullCard, NullCard, <<>>, "none")) :
        sh \in RequestShapes \ {"ok"}}
    \cup {ActRequest(room, "ok", "A", "none", UnknownAction)}

ActRequests(room) == WellFormedActRequests(room, ActionChoices) \cup MalformedActRequests(room)
RaceActRequests(room) == WellFormedActRequests(room, RaceActionChoices)

RaceJoinRequests ==
    {[shape |-> "ok", seat |-> s, token |-> seatToken(s)] : s \in PlayerSeats}

JoinRequests ==
    {[shape |-> sh, seat |-> s, token |-> IF good THEN seatToken(s) ELSE BadToken] :
        sh \in {"ok", "missingSeatOrToken"}, s \in RequestSeats, good \in BOOLEAN}

(***************************************************************************)
(* State.                                                                  *)
(*   store          the gist: the room document and its entity tag         *)
(*   inflight       per request slot, the handler suspended at an await;   *)
(*                  winner records the write that overtook the request     *)
(*   resp           the response sent last                                 *)
(*   committedFrom  entity tags that a committed write was conditioned on   *)
(*   startVersion   version of the room the exploration started from       *)
(*   turnRun        the END_TURNs committed in a row up to now: the joined  *)
(*                  order, currentSeat and version before the first and     *)
(*                  after each, and whether each met a round boundary       *)
(***************************************************************************)
VARIABLES store, inflight, resp, committedFrom, startVersion, turnRun
vars == <<store, inflight, resp, committedFrom, startVersion, turnRun>>

IdleSlot ==
    [pc |-> "idle", kind |-> "none", sourceEtag |-> 0, base |-> <<>>,
     outcome |-> <<>>, gets |-> 0, patches |-> 0, winner |-> <<>>]

NoResponse ==
    [kind |-> "none", status |-> 0, error |-> "", body |-> <<>>,
     privateDelta |-> <<>>, gets |-> 0, patches |-> 0]

NoRun == [joined |-> <<>>, seats |-> <<>>, versions |-> <<>>, boundary |-> <<>>]

\* the last n elements of a sequence
Last(s, n) == IF Len(s) > n THEN SubSeq(s, Len(s) - n + 1, Len(s)) ELSE s

\* the reducer's advanceRound for an END_TURN on this room
meetsRoundBoundary(room) ==
    room.pendingRoundAdvance
    \/ shouldAdvanceRound(room, getJoinedSeatOrder(room.seats), "END_TURN")

\* the run of END_TURNs after the commit that turned room into updatedRoom
extendRun(run, room, updatedRoom) ==
    IF updatedRoom.log[Len(updatedRoom.log)].type # "END_TURN" THEN NoRun
    ELSE LET begun == IF run = NoRun
                      THEN [joined |-> getJoinedSeatOrder(room.seats),
                            seats |-> <<room.currentSeat>>,
                            versions |-> <<room.version>>,
                            boundary |-> <<>>]
                      ELSE run
         IN [joined |-> begun.joined,
             seats |-> Last(Append(begun.seats, updatedRoom.currentSeat), MaxPlayers + 1),
             versions |-> Last(Append(begun.versions, updatedRoom.version), MaxPlayers + 1),
             boundary |-> Last(Append(begun.boundary, meetsRoundBoundary(room)), MaxPlayers)]

Commit(kind, room) == [kind |-> kind, room |-> room]

Response(kind, status, error, body, delta, gets, patches) ==
    [kind |-> kind, status |-> status, error |-> error, body |-> body,
     privateDelta |-> delta, gets |-> gets, patches |-> patches]

\* a sequential run of the handlers from a room, every request committed
RECURSIVE replay(_, _)
replay(room, script) ==
    IF script = <<>> THEN room
    ELSE LET step == Head(script)
             req == [shape |-> "ok", seat |-> step.seat, token |-> seatToken(step.seat),
                     expectedVersion |-> room.version,
                     expectedTurnNonce |-> room.turnNonce, action |-> step.action]
             outcome == IF step.kind = "join" THEN handleJoin(room, req)
                        ELSE handleAct(room, req)
         IN replay(outcome.updatedRoom[1], Tail(script))

ActStep(seat, action) == [kind |-> "act", seat |-> seat, action |-> action]
JoinStep(seat) == [kind |-> "join", seat |-> seat, action |-> <<>>]
PickStep(seat) == ActStep(seat, Action("PICK_ASSET", NullCard, NullCard, <<>>, "none"))
EndTurnStep(seat) == ActStep(seat, Action("END_TURN", NullCard, NullCard, <<>>, "none"))

\* B has filled its hand to the limit on its turn
FullHandScript ==
    <<JoinStep("A"), JoinStep("B"), EndTurnStep("A"),
      PickStep("B"), PickStep("B"), PickStep("B"), PickStep("B"), PickStep("B")>>

CreatedRooms ==
    {buildInitialPublicState(PlayerCount, [i \in 1..NumProjects |-> i],
                             [i \in 1..NumAssets |-> i], macroOrder) :
        macroOrder \in {MacroIds, Reverse(MacroIds)}}

RaceCreatedRoom ==
    buildInitialPublicState(PlayerCount, [i \in 1..NumProjects |-> i],
                            [i \in 1..NumAssets |-> i], MacroIds)

RaceStartRooms == {RaceCreatedRoom, replay(RaceCreatedRoom, FullHandScript)}

StartRooms == CreatedRooms \cup {replay(room, FullHandScript) : room \in CreatedRooms}

Init ==
    /\ \E room \in StartRooms :
         /\ store = [room |-> room, etag |-> 1]
         /\ startVersion = room.version
    /\ inflight = [r \in Slots |-> IdleSlot]
    /\ resp = NoResponse
    /\ committedFrom = {}
    /\ turnRun = NoRun

\* slot r has committed: the other requests that read the same entity tag are
\* overtaken by its write
Overtaken(r, commit) ==
    [q \in Slots |->
        IF q = r THEN IdleSlot
        ELSE IF inflight[q].pc # "idle" /\ inflight[q].sourceEtag = inflight[r].sourceEtag
        THEN [inflight[q] EXCEPT !.winner = <<commit>>]
        ELSE inflight[q]]

\* after the GET and the checks: answer at once, or go on to the PATCH
AnswerOrPatch(r, kind, outcome) ==
    IF outcome.write
    THEN /\ inflight' = [inflight EXCEPT ![r] =
                           [pc |-> "patch", kind |-> kind, sourceEtag |-> store.etag,
                            base |-> <<store.room>>, outcome |-> <<outcome>>,
                            gets |-> 1, patches |-> 0, winner |-> <<>>]]
         /\ resp' = NoResponse
    ELSE /\ resp' = Response(kind, outcome.status, outcome.error, outcome.body, <<>>, 1, 0)
         /\ UNCHANGED inflight

(***************************************************************************)
(* act: POST /api/rooms/:id/act                                            *)
(***************************************************************************)
\* rejected on its shape, before the store is read
ActInvalid(req) ==
    /\ resp = NoResponse
    /\ validateActRequest(req) # ""
    /\ resp' = Response("act", 400, validateActRequest(req), <<>>, <<>>, 0, 0)
    /\ UNCHANGED <<store, inflight, committedFrom, startVersion, turnRun>>

\* GET the gist, run the checks and the applier; answer at once or go on to PATCH
ActBegin(r, req) ==
    /\ resp = NoResponse
    /\ inflight[r].pc = "idle"
    /\ validateActRequest(req) = ""
    /\ AnswerOrPatch(r, "act", handleAct(store.room, req))
    /\ UNCHANGED <<store, committedFrom, startVersion, turnRun>>

\* PATCH with If-Match; a stale tag sends the handler to loadLatestRoom
ActPatch(r) ==
    /\ resp = NoResponse
    /\ inflight[r].pc = "patch"
    /\ inflight[r].kind = "act"
    /\ LET outcome == inflight[r].outcome[1]
           patched == storePatch(store, ifMatchHeader(inflight[r].sourceEtag),
                                 outcome.updatedRoom[1])
       IN IF patched.ok
          THEN /\ store' = patched.store
               /\ committedFrom' = committedFrom \cup {inflight[r].sourceEtag}
               /\ resp' = Response("act", 200, "", outcome.body, outcome.privateDelta,
                                   inflight[r].gets, inflight[r].patches + 1)
               /\ inflight' = Overtaken(r, Commit("act", outcome.updatedRoom[1]))
               /\ turnRun' = extendRun(turnRun, store.room, outcome.updatedRoom[1])
          ELSE /\ store' = patched.store
               /\ inflight' = [inflight EXCEPT ![r].pc = "reload",
                                               ![r].patches = inflight[r].patches + 1]
               /\ resp' = NoResponse
               /\ UNCHANGED <<committedFrom, turnRun>>
    /\ UNCHANGED startVersion

\* the stale write pushed through without a precondition before answering 409
ActReload_ForceWrite(r) ==
    /\ resp = NoResponse
    /\ inflight[r].pc = "reload"
    /\ store' = storePatch(store, 0, inflight[r].outcome[1].updatedRoom[1]).store
    /\ resp' = Response("act", 409, "Room changed, retry with latest version.",
                        conflictBody(store'.room, inflight[r].base[1]), <<>>,
                        inflight[r].gets + 1, inflight[r].patches + 1)
    /\ inflight' = [inflight EXCEPT ![r] = IdleSlot]
    /\ UNCHANGED <<committedFrom, startVersion, turnRun>>

\* the write was stale: read the room again and answer 409 with it
ActReload(r) ==
    /\ resp = NoResponse
    /\ inflight[r].pc = "reload"
    /\ resp' = Response("act", 409, "Room changed, retry with latest version.",
                        conflictBody(store.room, inflight[r].base[1]), <<>>,
                        inflight[r].gets + 1, inflight[r].patches)
    /\ inflight' = [inflight EXCEPT ![r] = IdleSlot]
    /\ UNCHANGED <<store, committedFrom, startVersion, turnRun>>

(***************************************************************************)
(* join: POST /api/rooms/:id/join                                          *)
(***************************************************************************)
JoinInvalid(req) ==
    /\ resp = NoResponse
    /\ validateJoinRequest(req) # ""
    /\ resp' = Response("join", 400, validateJoinRequest(req), <<>>, <<>>, 0, 0)
    /\ UNCHANGED <<store, inflight, committedFrom, startVersion, turnRun>>

JoinBegin(r, req) ==
    /\ resp = NoResponse
    /\ inflight[r].pc = "idle"
    /\ validateJoinRequest(req) = ""
    /\ AnswerOrPatch(r, "join", handleJoin(store.room, req))
    /\ UNCHANGED <<store, committedFrom, startVersion, turnRun>>

\* PATCH with If-Match; any failure is answered with the store's status
JoinPatch(r) ==
    /\ resp = NoResponse
    /\ inflight[r].pc = "patch"
    /\ inflight[r].kind = "join"
    /\ LET outcome == inflight[r].outcome[1]
           patched == storePatch(store, ifMatchHeader(inflight[r].sourceEtag),
                                 outcome.updatedRoom[1])
       IN IF patched.ok
          THEN /\ store' = patched.store
               /\ committedFrom' = committedFrom \cup {inflight[r].sourceEtag}
               /\ resp' = Response("join", 200, "", outcome.body, outcome.privateDelta,
                                   inflight[r].gets, inflight[r].patches + 1)
               /\ inflight' = Overtaken(r, Commit("join", outcome.updatedRoom[1]))
               /\ turnRun' = NoRun
          ELSE /\ store' = patched.store
               /\ resp' = Response("join", 412, "Failed to update room gist.", <<>>, <<>>,
                                   inflight[r].gets, inflight[r].patches + 1)
               /\ inflight' = [inflight EXCEPT ![r] = IdleSlot]
               /\ UNCHANGED <<committedFrom, turnRun>>
    /\ UNCHANGED startVersion

\* bounds on the exploration: act commits and join commits since Init
ActsLeft(n) == store.room.version < startVersion + n
JoinsLeft(n) == (store.etag - 1) - (store.room.version - startVersion) < n

\* the client takes the response off the wire
Receive ==
    /\ resp # NoResponse
    /\ resp' = NoResponse
    /\ UNCHANGED <<store, inflight, committedFrom, startVersion, turnRun>>

\* the handlers run one request at a time
Next ==
    \/ \E req \in ActRequests(store.room) : ActInvalid(req)
    \/ \E req \in ActRequests(store.room) : ActsLeft(MaxActions) /\ ActBegin(1, req)
    \/ ActPatch(1)
    \/ \E req \in JoinRequests : JoinInvalid(req)
    \/ \E req \in JoinRequests : JoinsLeft(MaxJoinWrites) /\ JoinBegin(1, req)
    \/ JoinPatch(1)
    \/ Receive

Spec == Init /\ [][Next]_vars

\* requests overlap: every slot is a handler invocation of its own
NextRace ==
    \/ \E req \in MalformedActRequests(store.room) : ActInvalid(req)
    \/ \E r \in Slots, req \in RaceActRequests(store.room) :
          ActsLeft(MaxRaceActions) /\ ActBegin(r, req)
    \/ \E r \in Slots : ActPatch(r)
    \/ \E r \in Slots : ActReload(r)
    \/ \E r \in Slots, req \in RaceJoinRequests :
          JoinsLeft(MaxRaceJoinWrites) /\ JoinBegin(r, req)
    \/ \E r \in Slots : JoinPatch(r)
    \/ Receive

InitRace ==
    /\ \E room \in RaceStartRooms :
         /\ store = [room |-> room, etag |-> 1]
         /\ startVersion = room.version
    /\ inflight = [r \in Slots |-> IdleSlot]
    /\ resp = NoResponse
    /\ committedFrom = {}
    /\ turnRun = NoRun

SpecRace == InitRace /\ [][NextRace]_vars

\* turn taking among n seats: the seats act on the room one request at a time
TurnActionChoices ==
    {Action(t, NullCard, NullCard, <<>>, "none") : t \in {"END_TURN", "ADVANCE_ROUND"}}
    \cup {Action("START_PROJECT", NullCard, 1, <<>>, "none"),
          Action("DISCARD_ASSET", 1, NullCard, <<>>, "none")}

TurnRequests(room) ==
    {ActRequest(room, "ok", seat, "none", action) :
        seat \in DOMAIN room.seats, action \in TurnActionChoices}

JoinScript(seatSet) == [i \in 1..Len(seatSort(seatSet)) |-> JoinStep(seatSort(seatSet)[i])]

TurnCreatedRoom(n) ==
    buildInitialPublicState(n, [i \in 1..NumProjects |-> i],
                            [i \in 1..(AssetMarketSize + DealSize * n + ExtraAssets) |-> i],
                            MacroIds)

\* a room whose projects deck outlasts the first refill of the market
TurnLongDeckRoom(n) ==
    buildInitialPublicState(n, [i \in 1..(NumProjects + 1) |-> i],
                            [i \in 1..(AssetMarketSize + DealSize * n + ExtraAssets) |-> i],
                            MacroIds)

\* a room of n seats, all joined, brought to its last round
TurnFinalRoundRoom(n) ==
    replay(TurnLongDeckRoom(n),
           JoinScript(PlayerSeatsOf(n))
           \o [i \in 1..(TotalRounds - 1) |->
                 ActStep("A", Action("ADVANCE_ROUND", NullCard, NullCard, <<>>, "none"))])

\* every seat has joined, or every seat but the first
TurnStartRooms ==
    {replay(TurnCreatedRoom(n), JoinScript(PlayerSeatsOf(n))) : n \in MinPlayers..MaxPlayers}
    \cup {replay(TurnCreatedRoom(n), JoinScript(PlayerSeatsOf(n) \ {"A"})) :
             n \in MinPlayers..MaxPlayers}
    \cup {replay(TurnLongDeckRoom(n), JoinScript(PlayerSeatsOf(n))) :
             n \in MinPlayers..MaxPlayers}
    \cup {TurnFinalRoundRoom(MinPlayers)}

InitTurns ==
    /\ \E room \in TurnStartRooms :
         /\ store = [room |-> room, etag |-> 1]
         /\ startVersion = room.version
    /\ inflight = [r \in Slots |-> IdleSlot]
    /\ resp = NoResponse
    /\ committedFrom = {}
    /\ turnRun = NoRun

NextTurns ==
    \/ \E req \in TurnRequests(store.room) : ActsLeft(MaxTurnActions) /\ ActBegin(1, req)
    \/ ActPatch(1)
    \/ Receive

SpecTurns == InitTurns /\ [][NextTurns]_vars

(***************************************************************************)
(* Properties.                                                             *)
(***************************************************************************)
\* slot r's PATCH was accepted in this step
Commits(r) == inflight[r].pc = "patch" /\ inflight'[r] = IdleSlot /\ store' # store

\* the request got past the shape, seat and token checks
Authenticated(room, req) ==
    /\ validateActRequest(req) = ""
    /\ req.seat \in DOMAIN room.seats
    /\ isSeatTokenValid(room.seats[req.seat], req.token)

LastLog(room) == room.log[Len(room.log)]

\* C1: a write is committed only if the document is still the one the handler
\* read (same entity tag, same content), so no committed write is overwritten
\* unseen, and at most one write is committed per entity tag read.
C1_NoLostUpdate ==
    [][/\ \A r \in Slots :
            Commits(r) =>
              /\ inflight[r].sourceEtag = store.etag
              /\ inflight[r].base = <<store.room>>
              /\ inflight[r].sourceEtag \notin committedFrom
              /\ inflight[r].winner = <<>>
       /\ store' # store => \E r \in Slots : Commits(r)]_vars

\* two requests read the same entity tag; one committed, the other was found stale
C1_Witness ==
    \E r \in Slots :
        /\ inflight[r].pc = "reload"
        /\ inflight[r].sourceEtag \in committedFrom
        /\ inflight[r].winner # <<>>

\* C2: an act request whose conditional write is stale writes nothing more,
\* reads the room once more and answers 409 with the public projection of the
\* room it then finds; when it lost to another act request that is the
\* winner's committed state (unless overwritten since), with a version
\* strictly greater than the version the loser read.
C2_RaceLoser ==
    [][\A r \in Slots :
          (inflight[r].pc = "reload" /\ inflight'[r] = IdleSlot) =>
            /\ store' = store
            /\ resp'.status = 409
            /\ resp'.error = "Room changed, retry with latest version."
            /\ resp'.patches = 1
            /\ resp'.gets = 2
            /\ resp'.body = <<toPublicRoomState(store.room)>>
            /\ inflight[r].winner # <<>>
            /\ inflight[r].winner[1].kind = "act" =>
                  /\ resp'.body[1].version > inflight[r].base[1].version
                  /\ store.etag = inflight[r].sourceEtag + 1 =>
                        resp'.body = <<toPublicRoomState(inflight[r].winner[1].room)>>]_vars

\* the loser of a race between two act requests has its 409
C2_Witness ==
    /\ resp.kind = "act"
    /\ resp.error = "Room changed, retry with latest version."
    /\ resp.gets = 2
    /\ resp.body # <<>>
    /\ resp.body[1].version = startVersion + 1
    /\ resp.body[1] = toPublicRoomState(store.room)

\* C3: the version goes up by exactly one in the step that commits an applied
\* action, of whatever kind, together with one log entry, and stays as it is in
\* every other step: rejections, failures, lost races and joins.
C3_VersionStep ==
    [][/\ store'.room.version \in {store.room.version, store.room.version + 1}
       /\ store'.room.version = store.room.version + 1 <=>
             \E r \in Slots : Commits(r) /\ inflight[r].kind = "act"
       /\ (\E r \in Slots : Commits(r) /\ inflight[r].kind = "act") =>
             /\ resp'.status = 200
             /\ resp'.body[1].version = store'.room.version
             /\ Len(store'.room.log) = Len(store.room.log) + 1
       /\ resp'.status \notin {0, 200} => store'.room.version = store.room.version]_vars

\* an END_TURN was applied on top of two other applied actions
C3_Witness ==
    /\ resp.status = 200
    /\ resp.kind = "act"
    /\ store.room.version = startVersion + 2
    /\ LastLog(store.room).type = "END_TURN"

\* the well-formed, authenticated requests that carry the given fault
RequestsWith(room, fault) ==
    {ActRequest(room, "ok", seat, fault, action) :
        seat \in PlayerSeats, action \in ActionChoices}

\* the handler answers the request 409 with the room as it is and asks for no write
Refuses(room, req, error) ==
    LET outcome == handleAct(room, req)
    IN /\ ~outcome.write
       /\ outcome.status = 409
       /\ outcome.error = error
       /\ outcome.body = <<toPublicRoomState(room)>>

\* a response carrying the error comes from a step that read once and wrote nothing
AnsweredWithoutWrite(error) ==
    resp'.error = error =>
        /\ resp'.status = 409
        /\ resp'.gets = 1
        /\ resp'.patches = 0
        /\ UNCHANGED <<store, inflight, committedFrom>>

\* C4: an authenticated act request whose expectedVersion differs from the
\* stored version is answered 409 with the current public room state and
\* nothing is written.
C4_VersionMismatch ==
    /\ [](\A req \in RequestsWith(store.room, "staleVersion") :
             /\ Authenticated(store.room, req)
             /\ req.expectedVersion # store.room.version
             /\ Refuses(store.room, req, "Version mismatch."))
    /\ [][AnsweredWithoutWrite("Version mismatch.")]_vars

\* a stale expectedVersion was refused after the room had moved on
C4_Witness ==
    /\ resp.error = "Version mismatch."
    /\ resp.body # <<>>
    /\ resp.body[1] = toPublicRoomState(store.room)
    /\ resp.body[1].version > startVersion

C6_FailureLeavesStore ==
    [][/\ store' # store => resp'.status = 200
       /\ resp'.status \notin {0, 200} => UNCHANGED <<store, committedFrom>>
       /\ \A r \in Slots :
             (inflight[r].pc = "patch" /\ inflight'[r].pc = "reload") => store' = store]_vars

\* a request failed after another request had changed the room, which is still
\* the room that request wrote
C6_Witness ==
    /\ resp.status \in {400, 403, 409, 412, 500}
    /\ store.etag > 1
    /\ resp.patches = 1

\* the round has ended and some seat has not paid its round-end discards yet
pendingRoundDiscardsOutstanding(room) ==
    room.pendingRoundAdvance /\ \E s \in DOMAIN room.seats : room.mustDiscardBySeat[s] > 0

\* the seat owes a discard: its hand-limit flag is up or it has round-end debt
HasDiscardDebt(room, seat) ==
    room.seats[seat].mustDiscard \/ room.mustDiscardBySeat[seat] > 0

\* the discard names a card and the seat has a card to give up
IsValidDiscard(room, req) ==
    req.action.cardId # NullCard /\ room.seats[req.seat].handSize > 0

C8_EndTurnBlocked ==
    /\ [](\A req \in RequestsWith(store.room, "none") :
             (req.action.type = "END_TURN" /\ store.room.seats[req.seat].mustDiscard) =>
               LET outcome == handleAct(store.room, req)
               IN ~outcome.write /\ outcome.status = 409
                  /\ outcome.body = <<toPublicRoomState(store.room)>>)
    /\ [][/\ AnsweredWithoutWrite("Must discard down to limit before ending turn.")
          /\ (/\ store.room.seats[store.room.currentSeat].mustDiscard
              /\ Len(store'.room.log) > Len(store.room.log)) =>
                 LastLog(store'.room).type # "END_TURN"]_vars

\* the current seat, over its hand limit, had its END_TURN refused
C8_Witness ==
    /\ resp.error = "Must discard down to limit before ending turn."
    /\ store.room.seats[store.room.currentSeat].mustDiscard
    /\ store.room.seats[store.room.currentSeat].handSize > DefaultHandLimit

RunWindow(n) == Last(turnRun.seats, n + 1)

\* a run of END_TURNs as long as the joined order, begun at a joined seat
FullRun ==
    /\ Len(turnRun.joined) \in MinPlayers..MaxPlayers
    /\ Len(turnRun.seats) > Len(turnRun.joined)
    /\ Includes(turnRun.joined, RunWindow(Len(turnRun.joined))[1])

\* none of the window's END_TURNs met a round boundary
NoBoundaryInRun ==
    \A i \in DOMAIN Last(turnRun.boundary, Len(turnRun.joined)) :
        ~Last(turnRun.boundary, Len(turnRun.joined))[i]

\* the window visits every joined seat once, in joined order, and ends where it
\* began; every END_TURN raised the version by one
Rotation ==
    LET n == Len(turnRun.joined)
        window == RunWindow(n)
        versions == Last(turnRun.versions, n + 1)
    IN /\ window[n + 1] = window[1]
       /\ {window[i] : i \in 2..(n + 1)} = SeqToSet(turnRun.joined)
       /\ \A i \in 1..n :
             /\ window[i + 1] = turnRun.joined[(IndexOf(turnRun.joined, window[i]) % n) + 1]
             /\ versions[i + 1] = versions[i] + 1

\* C10 as stated: N END_TURNs committed in a row among N joined seats, begun at
\* a joined seat, visit every joined seat once in joined order and return to
\* the starting seat, the version rising by one each time.
C10_RotationAlways == FullRun => Rotation

\* C10: N END_TURNs committed in a row among N joined seats (N in 2..4), begun
\* at a joined seat and none of them meeting a round boundary, visit every
\* joined seat once in joined order and return currentSeat to the starting
\* seat, the version rising by one each time.
C10_Rotation == (FullRun /\ NoBoundaryInRun) => Rotation

\* three joined seats have each ended a turn, no round boundary met
C10_Witness ==
    /\ FullRun
    /\ NoBoundaryInRun
    /\ Len(turnRun.joined) = 3
    /\ store.room.currentSeat = RunWindow(3)[1]

\* the fields a finished game is said to keep
TerminalFields(room) ==
    <<room.currentSeat, room.currentRound, room.turnCount, room.seats, room.market,
      room.decks, room.finalScoring>>

\* an action was committed in this step
ActionCommitted == Len(store'.room.log) = Len(store.room.log) + 1

\* C11 as stated: once gameOver is true no action changes currentSeat,
\* currentRound, turnCount, seats, market, decks or finalScoring, and no
\* further action is applied, so the final scoring is computed once.
C11_Terminal ==
    [][(store.room.gameOver /\ ActionCommitted) =>
          TerminalFields(store'.room) = TerminalFields(store.room)]_vars

\* an action was applied to a finished game and changed its market
C11_Witness ==
    /\ store.room.gameOver
    /\ store.room.finalScoring # <<>>
    /\ LastLog(store.room).type = "START_PROJECT"
    /\ resp.status = 200

\* the committed action is an END_TURN or ADVANCE_ROUND that met a round boundary
BoundaryCommitted ==
    /\ ActionCommitted
    /\ LastLog(store'.room).type \in {"END_TURN", "ADVANCE_ROUND"}
    /\ LastLog(store'.room).type = "ADVANCE_ROUND" \/ meetsRoundBoundary(store.room)

\* C12: a round boundary met in the final round (currentRound >= totalRounds)
\* that leaves no round-end debt outstanding ends the game: gameOver is true,
\* finalScoring is stored, every debt is zero and pendingRoundAdvance is
\* false; and in every reachable state finalScoring is stored exactly when
\* gameOver is true.
C12_GameEnds ==
    /\ [](store.room.finalScoring # <<>> <=> store.room.gameOver)
    /\ [][(/\ BoundaryCommitted
           /\ store.room.currentRound >= store.room.totalRounds
           /\ ~pendingRoundDiscardsOutstanding(store'.room)) =>
             /\ store'.room.gameOver
             /\ store'.room.finalScoring # <<>>
             /\ \A s \in DOMAIN store'.room.seats : store'.room.mustDiscardBySeat[s] = 0
             /\ ~store'.room.pendingRoundAdvance]_vars

\* the boundary of the last round has just been met and the game is over
C12_Witness ==
    /\ store.room.gameOver
    /\ store.room.currentRound = store.room.totalRounds
    /\ LastLog(store.room).type = "ADVANCE_ROUND"
    /\ resp.status = 200
    /\ resp.body[1].finalScoring # <<>>

(***************************************************************************)
(* Final scoring: rooms in their last round whose seats hold project lists *)
(* of every shape, brought to the final boundary through the handler.      *)
(***************************************************************************)
MaxScoredProjects == 2
MaxScoringActions == 2

ScoredProjectIds == {2, 3}

ScoredProjects ==
    {[id |-> id,
      allocatedTotals |-> [budget |-> 0, headcount |-> 0, tailwind |-> 0],
      allocatedCardIds |-> <<>>,
      stage |-> stage,
      paused |-> paused,
      restartBurdenTailwind |-> 0,
      abandonedPenaltyCount |-> abandoned] :
        id \in ScoredProjectIds, stage \in {"NONE", "MV", "TF"},
        paused \in BOOLEAN, abandoned \in {0, 1}}

ProjectLists ==
    UNION {[1..n -> ScoredProjects] : n \in 0..MaxScoredProjects}

\* what the other seat holds: nothing, a finished project, an abandoned one
OpponentLists ==
    {<<>>} \cup {<<p>> : p \in {q \in ScoredProjects :
                                  /\ q.id = 2
                                  /\ <<q.stage, q.paused, q.abandonedPenaltyCount>>
                                        \in {<<"TF", FALSE, 0>>, <<"NONE", TRUE, 1>>}}}

AdvanceRoundStep(seat) ==
    ActStep(seat, Action("ADVANCE_ROUND", NullCard, NullCard, <<>>, "none"))

\* two seats joined, two rounds played out
LastRoundRoom ==
    replay(TurnCreatedRoom(MinPlayers),
           JoinScript(PlayerSeatsOf(MinPlayers))
              \o <<AdvanceRoundStep("A"), AdvanceRoundStep("A")>>)

ScoringStartRooms ==
    {[LastRoundRoom EXCEPT !.seats["A"].projects = projectsA,
                           !.seats["B"].projects = projectsB] :
        projectsA \in ProjectLists, projectsB \in OpponentLists}

ScoringRequests(room) ==
    {ActRequest(room, "ok", room.currentSeat, "none",
                Action(t, NullCard, NullCard, <<>>, "none")) :
        t \in {"END_TURN", "ADVANCE_ROUND"}}

InitScoring ==
    /\ \E room \in ScoringStartRooms :
         /\ store = [room |-> room, etag |-> 1]
         /\ startVersion = room.version
    /\ inflight = [r \in Slots |-> IdleSlot]
    /\ resp = NoResponse
    /\ committedFrom = {}
    /\ turnRun = NoRun

NextScoring ==
    \/ \E req \in ScoringRequests(store.room) :
          ActsLeft(MaxScoringActions) /\ ActBegin(1, req)
    \/ ActPatch(1)
    \/ Receive

SpecScoring == InitScoring /\ [][NextScoring]_vars

\* the score as the rules put it, one project after the other
RECURSIVE Tally(_)
Tally(projects) ==
    IF projects = <<>> THEN [growth |-> 0, fuel |-> 0, penalties |-> 0]
    ELSE LET p == Head(projects)
             rest == Tally(Tail(projects))
             rewards == projectCard(p.id).rewards
             once == IF p.stage \in {"MV", "TF"} THEN 1 ELSE 0
             again == IF p.stage = "TF" THEN 1 ELSE 0
         IN [growth |-> rest.growth + once * rewards.growth + again * rewards.growth,
             fuel |-> rest.fuel + once * rewards.fuel + again * rewards.fuel,
             penalties |-> rest.penalties
                           + (IF p.paused \/ p.abandonedPenaltyCount > 0 THEN 1 ELSE 0)]

\* floor(n / 3) for n >= 0
FloorThird(n) == CHOOSE q \in 0..n : 3 * q <= n /\ n < 3 * q + 3

ScoredAsStated(scoring, projects) ==
    LET tally == Tally(projects)
        lower == IF tally.growth <= tally.fuel THEN tally.growth ELSE tally.fuel
        upper == IF tally.growth <= tally.fuel THEN tally.fuel ELSE tally.growth
    IN /\ scoring.growth = tally.growth
       /\ scoring.fuel = tally.fuel
       /\ scoring.pausedOrAbandonedCount = tally.penalties
       /\ scoring.baseScore = lower + FloorThird(upper - lower)
       /\ scoring.finalScore = scoring.baseScore - tally.penalties

\* C13: a seat's score adds each project's growth and fuel rewards once when
\* its stage is MV or TF and once more when it is TF, counts one penalty per
\* project that is paused or has abandonedPenaltyCount > 0, and gives
\* baseScore = min + floor((max - min) / 3) and finalScore = baseScore -
\* penalties; the scoring stored at the end of the game is that score of
\* every joined seat.
C13_SeatScoring ==
    /\ \A s \in DOMAIN store.room.seats :
          ScoredAsStated(computeSeatScoring(store.room.seats[s]),
                         store.room.seats[s].projects)
    /\ store.room.gameOver =>
          \A s \in SeqToSet(getJoinedSeatOrder(store.room.seats)) :
              ScoredAsStated(store.room.finalScoring[1].bySeat[s],
                             store.room.seats[s].projects)

\* the game has ended with a seat scored on a TF project, an unbalanced
\* growth/fuel total and a penalty
C13_Witness ==
    /\ store.room.gameOver
    /\ LET scoring == store.room.finalScoring[1].bySeat["A"]
       IN /\ scoring.tfCompletedCount > 0
          /\ scoring.pausedOrAbandonedCount > 0
          /\ scoring.baseScore > Min(scoring.growth, scoring.fuel)
          /\ scoring.finalScore = scoring.baseScore - scoring.pausedOrAbandonedCount

\* the joined seats whose final score no joined seat exceeds
TopSeats(room) ==
    LET joined == SeqToSet(getJoinedSeatOrder(room.seats))
        score(s) == room.finalScoring[1].bySeat[s].finalScore
    IN {s \in joined : \A t \in joined : score(t) <= score(s)}

\* C14 as stated: at game end the winners are exactly the joined seats whose
\* finalScore is the maximum over the joined seats, so there is always at
\* least one, also when every finalScore is negative, and isTie is true
\* exactly when there is more than one winner.
C14_Winners ==
    store.room.gameOver =>
        LET scoring == store.room.finalScoring[1]
        IN /\ SeqToSet(scoring.winners) = TopSeats(store.room)
           /\ scoring.winners # <<>>
           /\ scoring.isTie <=> Cardinality(TopSeats(store.room)) > 1

\* the game has ended with every joined seat below zero and nobody named winner
C14_Witness ==
    /\ store.room.gameOver
    /\ \A s \in SeqToSet(getJoinedSeatOrder(store.room.seats)) :
          store.room.finalScoring[1].bySeat[s].finalScore < 0
    /\ store.room.finalScoring[1].winners = <<>>
    /\ ~store.room.finalScoring[1].isTie

DeckKeys == {"projects", "assetsRound1", "macroEvents"}

\* every card id of a deck in both of its piles, as one sequence
DeckCards(deckState) == deckState.drawPile \o deckState.discardPile

\* how often the id occurs in the deck's two piles
PileCount(deckState, id) ==
    Cardinality({i \in DOMAIN DeckCards(deckState) : DeckCards(deckState)[i] = id})

\* after holds the cards of before, some of them moved from the top of the
\* draw pile to the end of the discard pile in the order they were drawn
CardsMoved(before, after) ==
    /\ \E n \in 0..Len(before.drawPile) :
          /\ after.drawPile = Drop(before.drawPile, n)
          /\ after.discardPile = before.discardPile \o Take(before.drawPile, n)
    /\ \A id \in SeqToSet(DeckCards(before)) \cup SeqToSet(DeckCards(after)) :
          PileCount(after, id) = PileCount(before, id)

\* C15: for each deck key the multiset of card ids in drawPile plus
\* discardPile never changes once the room exists: every step leaves each
\* deck as it was or moves ids from the top of drawPile to the end of
\* discardPile (asset draws and market refills, project market refills, the
\* macro-event draw), no id is lost or occurs twice, and a DRAW_CARD draw from
\* any deck of a reachable room does the same with the top id.
C15_DeckConservation ==
    /\ [](\A key \in DeckKeys :
             /\ \A id \in SeqToSet(DeckCards(store.room.decks[key])) :
                   PileCount(store.room.decks[key], id) = 1
             /\ LET drawn == drawFromDeck(store.room.decks, key)
                IN /\ drawn.ok <=> Len(store.room.decks[key].drawPile) > 0
                   /\ CardsMoved(store.room.decks[key], drawn.decks[key])
                   /\ drawn.ok => /\ drawn.cardId = Head(store.room.decks[key].drawPile)
                                  /\ Len(drawn.decks[key].drawPile)
                                        = Len(store.room.decks[key].drawPile) - 1
                   /\ \A other \in DeckKeys \ {key} :
                         drawn.decks[other] = store.room.decks[other])
    /\ [][\A key \in DeckKeys :
             CardsMoved(store.room.decks[key], store'.room.decks[key])]_vars

\* cards have been drawn from the asset deck, the project deck and the
\* macro-event deck
C15_Witness ==
    /\ Len(store.room.decks.assetsRound1.discardPile) > 0
    /\ Len(store.room.decks.projects.discardPile) > 0
    /\ Len(store.room.decks.macroEvents.discardPile) > 0

RECURSIVE Flatten(_)
Flatten(seqs) == IF seqs = <<>> THEN <<>> ELSE Head(seqs) \o Flatten(Tail(seqs))

\* the card ids allocated to the projects of a seat
AllocatedCards(seatState) ==
    Flatten([i \in DOMAIN seatState.projects |-> seatState.projects[i].allocatedCardIds])

\* the asset card ids the room places somewhere: market, deal queues, projects
PlacedCards(room) ==
    LET seatOrder == seatSort(DOMAIN room.seats)
    IN room.market.availableAssets
       \o Flatten([i \in DOMAIN seatOrder |-> room.dealQueue[seatOrder[i]]])
       \o Flatten([i \in DOMAIN seatOrder |-> AllocatedCards(room.seats[seatOrder[i]])])

\* C16 as stated: the card ids in the asset market, in the deal queues and in
\* the allocatedCardIds of all project instances are pairwise disjoint: no
\* id is in two of these places or twice in one.
C16_CardsDisjoint ==
    Cardinality(SeqToSet(PlacedCards(store.room))) = Len(PlacedCards(store.room))

\* a card lying in the asset market has been allocated to a project
C16_Witness ==
    /\ resp.status = 200
    /\ store.room.log # <<>>
    /\ LastLog(store.room).type = "ALLOCATE_TO_PROJECT"
    /\ \E s \in DOMAIN store.room.seats :
          \E c \in SeqToSet(AllocatedCards(store.room.seats[s])) :
              Includes(store.room.market.availableAssets, c)

\* the stage the rules give a project with this much tailwind
StageAsStated(projectState) ==
    LET tailwind == projectState.allocatedTotals.tailwind
        mvReq == projectCard(projectState.id).mvReq
        tfReq == projectCard(projectState.id).tfReq
    IN CHOOSE stage \in {"NONE", "MV", "TF"} :
          /\ stage = "TF" <=> tailwind >= mvReq + tfReq
          /\ stage = "MV" <=> (tailwind >= mvReq /\ tailwind < mvReq + tfReq)

\* C17: in every reachable state the stage of every project instance is the
\* one computed from its allocated tailwind and the catalog thresholds: TF
\* when tailwind >= mvReq + tfReq, otherwise MV when tailwind >= mvReq,
\* otherwise NONE; after START_PROJECT, ALLOCATE_TO_PROJECT and
\* PAUSE_PROJECT alike.
C17_StageFromTailwind ==
    \A s \in DOMAIN store.room.seats :
        \A i \in DOMAIN store.room.seats[s].projects :
            store.room.seats[s].projects[i].stage
                = StageAsStated(store.room.seats[s].projects[i])

\* an allocation has just taken a project to TF
C17_Witness ==
    /\ resp.status = 200
    /\ store.room.log # <<>>
    /\ LastLog(store.room).type = "ALLOCATE_TO_PROJECT"
    /\ \E i \in DOMAIN store.room.seats[LastLog(store.room).seat].projects :
          LET p == store.room.seats[LastLog(store.room).seat].projects[i]
          IN /\ p.stage = "TF"
             /\ p.allocatedTotals.tailwind
                   >= projectCard(p.id).mvReq + projectCard(p.id).tfReq

IsPublicRoomState(body) ==
    /\ "dealQueue" \notin DOMAIN body
    /\ \A s \in DOMAIN body.seats :
          DOMAIN body.seats[s] \cap {"token", "tokenHash"} = {}

\* the room with the seat's credential kept in clear, as rooms created
\* before tokens were hashed have it
WithClearToken(room, seat) ==
    [room EXCEPT !.seats[seat] =
        [k \in DOMAIN room.seats[seat] \cup {"token"} |->
            IF k = "token" THEN seatToken(seat) ELSE room.seats[seat][k]]]

\* C19: every room state sent to a client, in the 200 of act and of join and
\* as latestState of every 409, is the public projection: no seat carries a
\* token or tokenHash and there is no dealQueue; the projection of the stored
\* room has neither, also when a seat's token is stored in clear.
C19_PublicProjection ==
    /\ resp.body # <<>> => IsPublicRoomState(resp.body[1])
    /\ IsPublicRoomState(toPublicRoomState(store.room))
    /\ \A s \in DOMAIN store.room.seats :
          IsPublicRoomState(toPublicRoomState(WithClearToken(store.room, s)))

\* the loser of a write race is sent the latest room while the stored room
\* holds seat credentials and an undelivered deal
C19_Witness ==
    /\ resp.status = 409
    /\ resp.error = "Room changed, retry with latest version."
    /\ resp.body # <<>>
    /\ "dealQueue" \in DOMAIN store.room
    /\ \E s \in DOMAIN store.room.seats :
          /\ "tokenHash" \in DOMAIN store.room.seats[s]
          /\ store.room.dealQueue[s] # <<>>

\* the tokens a request may carry: some seat's own, or one nobody was given
ProbeTokens == {seatToken(s) : s \in RequestSeats} \cup {BadToken}

ProbeActions ==
    {Action("END_TURN", NullCard, NullCard, <<>>, "none"),
     Action("PICK_ASSET", NullCard, NullCard, <<>>, "none"),
     Action("DISCARD_ASSET", 1, NullCard, <<>>, "none")}

\* a well-formed act request of the seat with the token, current in version
\* and nonce
ProbeRequest(room, seat, token, action) ==
    [shape |-> "ok", seat |-> seat, token |-> token,
     expectedVersion |-> room.version, expectedTurnNonce |-> room.turnNonce,
     action |-> action]

\* the token is the seat's stored token, or hashes to its stored tokenHash
TokenMatches(seatState, token) ==
    \/ "token" \in DOMAIN seatState /\ seatState.token = token
    \/ "tokenHash" \in DOMAIN seatState /\ seatState.tokenHash = hashToken(token)

\* the request names a seat of the room and carries that seat's credential
HoldsCredential(room, seat, token) ==
    seat \in DOMAIN room.seats /\ TokenMatches(room.seats[seat], token)

\* answered 403 without a write and without any room state
RejectedAsUnauthenticated(outcome) ==
    /\ ~outcome.write
    /\ outcome.status = 403
    /\ outcome.body = <<>>
    /\ outcome.updatedRoom = <<>>

\* the ways a seat's credential may be stored
CredentialShapes ==
    {[token |-> seatToken("A")],
     [tokenHash |-> hashToken(seatToken("A"))],
     [connected |-> TRUE]}

\* C20: an act or join request that names a seat not in the room, or carries
\* a token that is neither the seat's stored token nor hashes to its stored
\* tokenHash, is answered 403 and writes nothing; a request is applied only
\* with the valid token of the seat it names.
C20_Authentication ==
    /\ [](/\ \A seat \in RequestSeats, token \in ProbeTokens :
               /\ \A action \in ProbeActions :
                     LET outcome == handleAct(store.room,
                                              ProbeRequest(store.room, seat, token, action))
                     IN /\ ~HoldsCredential(store.room, seat, token) =>
                              RejectedAsUnauthenticated(outcome)
                        /\ outcome.write => HoldsCredential(store.room, seat, token)
               /\ LET outcome == handleJoin(store.room,
                                            [shape |-> "ok", seat |-> seat, token |-> token])
                  IN /\ ~HoldsCredential(store.room, seat, token) =>
                           RejectedAsUnauthenticated(outcome)
                     /\ outcome.write <=> HoldsCredential(store.room, seat, token)
          /\ \A seatState \in CredentialShapes, token \in ProbeTokens :
                isSeatTokenValid(seatState, token) <=> TokenMatches(seatState, token))
    /\ [][resp'.status = 403 =>
             /\ resp'.patches = 0
             /\ resp'.body = <<>>
             /\ UNCHANGED <<store, inflight, committedFrom>>]_vars

\* a request with a forged token was turned away after the room had been
\* written to
C20_Witness ==
    /\ resp.status = 403
    /\ resp.error = "Invalid seat token."
    /\ resp.kind = "act"
    /\ store.etag > 1

\* the action kinds the controller is said to recognize
RecognizedKinds ==
    {"END_TURN", "ADVANCE_ROUND", "PICK_ASSET", "START_PROJECT",
     "ALLOCATE_TO_PROJECT", "PAUSE_PROJECT", "DISCARD_ASSET"}

\* kinds that belong to no server action
OtherKinds == {"RESTART_PROJECT", "DRAW_CARD", "INITIALIZE_DECKS", ""}

\* one request of the current seat per kind, with the arguments the kind needs
KindProbes(room) ==
    {ActRequest(room, "ok", room.currentSeat, "none", action) :
        action \in {Action(t, 1, 1, <<4>>, "hash-1") : t \in RecognizedKinds \cup OtherKinds}}

AppendsOne(before, after, entry) == after = Append(before, entry)

\* the entry the handler is to record for a request
EntryOf(req) == [seat |-> req.seat, type |-> req.action.type]

\* C22: the room log is append-only: every act request the handler accepts
\* writes the log it read followed by exactly one entry holding the acting
\* seat and the action type, a join writes the log it read, every step of the
\* store either leaves the log as it is or adds one entry behind the existing
\* ones, the log grows exactly when an act commits, and a request answered
\* with anything but 200 leaves the log as it was.
C22_LogAppendOnly ==
    /\ [](/\ \A req \in RaceActRequests(store.room) :
                LET outcome == handleAct(store.room, req)
                IN IF outcome.write
                   THEN AppendsOne(store.room.log, outcome.updatedRoom[1].log, EntryOf(req))
                   ELSE outcome.updatedRoom = <<>> /\ outcome.status # 200
          /\ \A req \in RaceJoinRequests :
                LET outcome == handleJoin(store.room, req)
                IN outcome.write => outcome.updatedRoom[1].log = store.room.log)
    /\ [][/\ \/ store'.room.log = store.room.log
             \/ /\ Len(store'.room.log) = Len(store.room.log) + 1
                /\ Take(store'.room.log, Len(store.room.log)) = store.room.log
          /\ store'.room.log # store.room.log
                <=> \E r \in Slots : Commits(r) /\ inflight[r].kind = "act"
          /\ \A r \in Slots :
                (Commits(r) /\ inflight[r].kind = "act")
                   => /\ resp'.status = 200
                      /\ AppendsOne(store.room.log, store'.room.log,
                                    LastLog(inflight[r].outcome[1].updatedRoom[1]))
          /\ resp'.status \notin {0, 200} => store'.room.log = store.room.log
          /\ (resp'.status = 200 /\ resp'.kind = "join")
                => store'.room.log = store.room.log]_vars

\* two actions in a row have been appended behind a log that was not empty, the
\* second by a request that overlapped another one
C22_Witness ==
    /\ resp.status = 200
    /\ resp.kind = "act"
    /\ store.room.version = startVersion + 2
    /\ Len(store.room.log) > 2
    /\ \E r \in Slots : inflight[r].pc # "idle" /\ inflight[r].winner # <<>>


(***************************************************************************)
(* The initial deal.                                                       *)
(***************************************************************************)
\* the join of seat s was written in this step
JoinCommitted(s) ==
    /\ \E r \in Slots : Commits(r) /\ inflight[r].kind = "join"
    /\ resp'.kind = "join"
    /\ resp'.status = 200
    /\ resp'.privateDelta # <<>>
    /\ resp'.privateDelta[1].seat = s

\* C23: a seat's initial deal is disclosed exactly once: a join that is
\* written answers with privateDelta.addedCardIds equal to the seat's
\* dealQueue entry, stores the entry as empty and the seat as connected; an
\* empty entry stays empty, only the seat's own join changes its entry, a
\* connected seat has an empty entry, so every later join of the seat answers
\* with no added cards; a join that is not written answers with no cards.
C23_DealOnce ==
    /\ [](/\ \A s \in DOMAIN store.room.seats :
                store.room.seats[s].connected => store.room.dealQueue[s] = <<>>
          /\ \A req \in JoinRequests :
                LET outcome == handleJoin(store.room, req)
                IN IF outcome.write
                   THEN /\ outcome.privateDelta[1].addedCardIds = store.room.dealQueue[req.seat]
                        /\ store.room.seats[req.seat].connected
                              => outcome.privateDelta[1].addedCardIds = <<>>
                   ELSE outcome.privateDelta = <<>>)
    /\ [][/\ \A s \in DOMAIN store.room.seats :
                /\ JoinCommitted(s)
                      => /\ resp'.privateDelta[1].addedCardIds = store.room.dealQueue[s]
                         /\ resp'.privateDelta[1].removedCardIds = <<>>
                         /\ store'.room.dealQueue[s] = <<>>
                         /\ store'.room.seats[s].connected
                /\ store.room.dealQueue[s] = <<>> => store'.room.dealQueue[s] = <<>>
                /\ store'.room.dealQueue[s] # store.room.dealQueue[s] => JoinCommitted(s)
                /\ store.room.seats[s].connected => store'.room.seats[s].connected
          /\ (resp'.kind = "join" /\ resp'.status # 200)
                => resp'.privateDelta = <<>> /\ store'.room = store.room]_vars

\* a seat has joined a second time and was answered with no cards, while
\* another seat's deal is still queued
C23_Witness ==
    /\ resp.kind = "join"
    /\ resp.status = 200
    /\ resp.privateDelta # <<>>
    /\ resp.privateDelta[1].addedCardIds = <<>>
    /\ store.room.dealQueue[resp.privateDelta[1].seat] = <<>>
    /\ store.etag = 3
    /\ store.room.version = startVersion
    /\ \E s \in DOMAIN store.room.seats :
          store.room.dealQueue[s] # <<>> /\ ~store.room.seats[s].connected


(***************************************************************************)
(* Round boundaries.                                                       *)
(***************************************************************************)
\* numbers of projects a seat may have started in a round
MaxStarted == 2
StartedCounts == 0..MaxStarted

\* the room with the joined seats' projectsStartedThisRound set to started
WithStarted(room, started) ==
    [room EXCEPT !.seats = [s \in DOMAIN room.seats |->
        IF s \in DOMAIN started
        THEN [room.seats[s] EXCEPT !.projectsStartedThisRound = started[s]]
        ELSE room.seats[s]]]

\* the joined seats that started more projects than every other joined seat,
\* and at least one
SoleLeaders(room, joined) ==
    {l \in joined :
        /\ room.seats[l].projectsStartedThisRound > 0
        /\ \A o \in joined \ {l} :
              room.seats[o].projectsStartedThisRound < room.seats[l].projectsStartedThisRound}

\* the debt of a joined seat at a round boundary, as stated
DebtAsStated(room, joined, seat) ==
    IF SoleLeaders(room, joined) # {} /\ seat \notin SoleLeaders(room, joined) THEN 1 ELSE 0

\* the debt map computed for the room is the stated one
DebtMapAsStated(room) ==
    LET joinedSeats == getJoinedSeatOrder(room.seats)
        debts == computeMustDiscardBySeat(room, joinedSeats)
    IN \A s \in SeqToSet(joinedSeats) : debts[s] = DebtAsStated(room, SeqToSet(joinedSeats), s)

\* the committed action met a round boundary that was not pending before
FirstBoundaryCommitted == BoundaryCommitted /\ ~store.room.pendingRoundAdvance

\* C24: at a round boundary the debt map is: every joined seat but the leader
\* owes 1 and the leader 0 when exactly one joined seat has the strictly
\* largest projectsStartedThisRound and that number is above zero; every
\* joined seat owes 0 otherwise.  The computed map is the stated one for every
\* count of started projects the joined seats may have, and the map stored by
\* an END_TURN or ADVANCE_ROUND that meets the boundary is the stated one,
\* with the round advance pending exactly when some seat owes.
C24_DebtMap ==
    /\ [](\A started \in [SeqToSet(getJoinedSeatOrder(store.room.seats)) -> StartedCounts] :
             DebtMapAsStated(WithStarted(store.room, started)))
    /\ [][FirstBoundaryCommitted =>
            LET joined == SeqToSet(getJoinedSeatOrder(store.room.seats))
            IN /\ \A s \in joined :
                    store'.room.mustDiscardBySeat[s] = DebtAsStated(store.room, joined, s)
               /\ store'.room.pendingRoundAdvance
                     <=> \E s \in joined : DebtAsStated(store.room, joined, s) = 1]_vars

\* a boundary has just been met with one seat ahead of two others, who owe 1
C24_Witness ==
    /\ store.room.pendingRoundAdvance
    /\ store.room.log # <<>>
    /\ LastLog(store.room).type \in {"END_TURN", "ADVANCE_ROUND"}
    /\ resp.status = 200
    /\ \E l \in DOMAIN store.room.seats :
          /\ store.room.seats[l].projectsStartedThisRound = 1
          /\ store.room.mustDiscardBySeat[l] = 0
          /\ Cardinality({s \in DOMAIN store.room.seats :
                            store.room.mustDiscardBySeat[s] = 1}) >= 2


\* the committed action is of the given kind
KindCommitted(type) ==
    /\ ActionCommitted
    /\ resp'.status = 200
    /\ LastLog(store'.room).type = type

\* the room without what the handler writes on every action
ReducerFields(room) == [room EXCEPT !.version = 0, !.turnNonce = 0, !.log = <<>>]

\* the joined seat after seat in joined order, the first after the last
NextJoinedSeat(room, seat) ==
    LET joinedSeats == getJoinedSeatOrder(room.seats)
    IN IF \E i \in 1..Len(joinedSeats) : joinedSeats[i] = seat
       THEN LET i == CHOOSE k \in 1..Len(joinedSeats) : joinedSeats[k] = seat
            IN IF i = Len(joinedSeats) THEN joinedSeats[1] ELSE joinedSeats[i + 1]
       ELSE joinedSeats[1]

\* END_TURN's triggers: the projects draw pile is empty, or turnCount + 1
\* reaches 2 x the number of joined seats
EndTurnTriggers(room) ==
    \/ room.decks.projects.drawPile = <<>>
    \/ room.turnCount + 1 >= 2 * Len(getJoinedSeatOrder(room.seats))

\* next is room with the turn passed on and nothing else changed but version
TurnPassedOn(room, next) ==
    /\ ReducerFields(next) =
          ReducerFields([room EXCEPT !.currentSeat = NextJoinedSeat(room, room.currentSeat),
                                     !.turnCount = room.turnCount + 1])
    /\ next.version = room.version + 1

\* next is what a round boundary leaves of room: the advance pending on debts,
\* the game over, or the next round begun
BoundaryMet(room, next) ==
    \/ /\ next.pendingRoundAdvance
       /\ next.turnCount = room.turnCount
       /\ next.currentRound = room.currentRound
    \/ /\ next.gameOver
       /\ next.finalScoring # <<>>
       /\ ~next.pendingRoundAdvance
       /\ next.turnCount = room.turnCount
       /\ next.currentRound = room.currentRound
    \/ /\ next.currentRound = room.currentRound + 1
       /\ next.turnCount = 0
       /\ ~next.pendingRoundAdvance

OwedAtBoundary(room) ==
    LET joined == SeqToSet(getJoinedSeatOrder(room.seats))
    IN \E s \in joined : DebtAsStated(room, joined, s) = 1

\* the fields a boundary with debts is to leave alone
HeldAtBoundary(room) ==
    [currentRound |-> room.currentRound,
     currentSeat |-> room.currentSeat,
     turnCount |-> room.turnCount,
     started |-> [s \in DOMAIN room.seats |-> room.seats[s].projectsStartedThisRound],
     macroEvent |-> room.macroEvent,
     decks |-> room.decks]

\* C26: a round boundary at which some seat owes a discard sets
\* pendingRoundAdvance to true and stores the debt map, and leaves
\* currentRound, currentSeat, turnCount, every seat's
\* projectsStartedThisRound, the macro event and the decks unchanged (nothing
\* but pendingRoundAdvance, the debt map, version and the log changes).
C26_PendingFrame ==
    [][(FirstBoundaryCommitted /\ OwedAtBoundary(store.room)) =>
          /\ store'.room.pendingRoundAdvance
          /\ store'.room.mustDiscardBySeat =
                computeMustDiscardBySeat(store.room, getJoinedSeatOrder(store.room.seats))
          /\ pendingRoundDiscardsOutstanding(store'.room)
          /\ HeldAtBoundary(store'.room) = HeldAtBoundary(store.room)
          /\ ReducerFields(store'.room) =
                ReducerFields([store.room EXCEPT
                                 !.pendingRoundAdvance = TRUE,
                                 !.mustDiscardBySeat = store'.room.mustDiscardBySeat])
          /\ store'.room.turnNonce = store.room.turnNonce]_vars

\* an END_TURN later in the round has met the boundary with a seat in debt:
\* the turn has not moved on
C26_Witness ==
    /\ resp.status = 200
    /\ store.room.log # <<>>
    /\ LastLog(store.room).type = "END_TURN"
    /\ store.room.pendingRoundAdvance
    /\ pendingRoundDiscardsOutstanding(store.room)
    /\ store.room.turnCount >= 1
    /\ LastLog(store.room).seat = store.room.currentSeat
    /\ store.room.currentRound = 1


\* the request of the current seat for an action without arguments
CurrentSeatRequest(room, type) ==
    ActRequest(room, "ok", room.currentSeat, "none",
               Action(type, NullCard, NullCard, <<>>, "none"))

\* the round advance is pending and every debt has been paid
DebtsCleared(room) ==
    /\ room.pendingRoundAdvance
    /\ \A s \in DOMAIN room.mustDiscardBySeat : room.mustDiscardBySeat[s] = 0

\* next is room with the pending advance carried out: the next round begun, or
\* the game ended in the final round; no advance is pending and nobody owes
AdvanceCarriedOut(room, next) ==
    /\ IF room.currentRound < room.totalRounds
       THEN next.currentRound = room.currentRound + 1 /\ next.turnCount = 0
       ELSE /\ next.currentRound = room.currentRound
            /\ next.gameOver
            /\ next.finalScoring # <<>>
    /\ ~next.pendingRoundAdvance
    /\ \A s \in DOMAIN next.mustDiscardBySeat : next.mustDiscardBySeat[s] = 0

DebtOf(room, seat) == room.mustDiscardBySeat[seat]

\* the seat's own DISCARD_ASSET was committed in this step
OwnDiscardCommitted(seat) ==
    /\ KindCommitted("DISCARD_ASSET")
    /\ LastLog(store'.room).seat = seat

SeatRank(seat) == CHOOSE i \in 1..Len(SEAT_ORDER) : SEAT_ORDER[i] = seat

\* the connected seats, or all seats when none is connected
JoinedSeats(room) ==
    IF \E s \in DOMAIN room.seats : room.seats[s].connected
    THEN {s \in DOMAIN room.seats : room.seats[s].connected}
    ELSE DOMAIN room.seats

\* the first joined seat in canonical order
FirstJoinedSeat(room) ==
    CHOOSE s \in JoinedSeats(room) : \A t \in JoinedSeats(room) : SeatRank(s) <= SeatRank(t)

\* nobody owes at a boundary met on this room: the debts of a pending advance
\* have been paid, or a fresh boundary finds no sole leader with followers
NoDebtsAtBoundary(room) ==
    IF room.pendingRoundAdvance THEN DebtsCleared(room) ELSE ~OwedAtBoundary(room)

\* the committed action advances the round: boundary, no debts, not the last round
RoundAdvances ==
    /\ BoundaryCommitted
    /\ NoDebtsAtBoundary(store.room)
    /\ store.room.currentRound < store.room.totalRounds

\* C29: when a round advances (boundary, no debts, currentRound < totalRounds)
\* currentRound increases by exactly 1, currentSeat becomes the first joined
\* seat, turnCount becomes 0, every seat's projectsStartedThisRound becomes 0,
\* all debts become 0 and pendingRoundAdvance becomes false; in every
\* reachable state 1 <= currentRound <= totalRounds, currentRound never
\* decreases, and it changes only when a round advances.
C29_RoundAdvance ==
    /\ [](/\ 1 <= store.room.currentRound
          /\ store.room.currentRound <= store.room.totalRounds)
    /\ [][/\ RoundAdvances =>
               /\ store'.room.currentRound = store.room.currentRound + 1
               /\ store'.room.currentSeat = FirstJoinedSeat(store.room)
               /\ store'.room.turnCount = 0
               /\ \A s \in DOMAIN store'.room.seats :
                     /\ store'.room.seats[s].projectsStartedThisRound = 0
                     /\ store'.room.mustDiscardBySeat[s] = 0
               /\ ~store'.room.pendingRoundAdvance
          /\ store'.room.currentRound >= store.room.currentRound
          /\ store'.room.currentRound # store.room.currentRound => RoundAdvances]_vars

\* an END_TURN of the second seat has begun round 2 in a room whose first seat
\* has not joined, after a project was started in round 1
C29_Witness ==
    /\ resp.status = 200
    /\ Len(store.room.log) >= 2
    /\ LastLog(store.room).type = "END_TURN"
    /\ \E i \in 1..Len(store.room.log) : store.room.log[i].type = "START_PROJECT"
    /\ store.room.currentRound = 2
    /\ store.room.turnCount = 0
    /\ ~store.room.seats["A"].connected
    /\ store.room.currentSeat = "B"
    /\ \A s \in DOMAIN store.room.seats : store.room.seats[s].projectsStartedThisRound = 0


(***************************************************************************)
(* Macro events.                                                           *)
(***************************************************************************)
\* the macro-event deck of a room
MacroDeck(room) == room.decks.macroEvents

\* the round modifier entries tagged with the event id
EntriesFor(room, eventId) ==
    {room.roundModifiers[i] : i \in {j \in DOMAIN room.roundModifiers :
                                        room.roundModifiers[j].source = eventId}}

\* the event was drawn from room into next and installed
MacroInstalled(room, next, eventId) ==
    /\ MacroDeck(next).drawPile = Tail(MacroDeck(room).drawPile)
    /\ MacroDeck(next).discardPile = Append(MacroDeck(room).discardPile, eventId)
    /\ next.macroEvent = eventId
    /\ EntriesFor(next, eventId) # {}
    /\ \A entry \in EntriesFor(next, eventId) :
          /\ entry.ruleModifiers = macroRuleModifiers(eventId)
          /\ eventId = "macro-m5" => entry.handLimit = 6
          /\ eventId = "macro-m6" => entry.tailwindPickBonus = 1

\* C30: on entering round 2 or round 3 with a non-empty macro-event draw pile
\* the top macro event id moves from the draw pile to the discard pile,
\* becomes the room's macroEvent, and a round modifier entry tagged with that
\* id as source is installed, carrying handLimit 6 for macro-m5 and
\* tailwindPickBonus 1 for macro-m6 besides the event's declared modifiers;
\* the macro deck and the macro event change on no other transition.
C30_MacroDraw ==
    [][/\ (RoundAdvances /\ MacroDeck(store.room).drawPile # <<>>) =>
             /\ store'.room.currentRound \in {2, 3}
             /\ MacroInstalled(store.room, store'.room, Head(MacroDeck(store.room).drawPile))
       /\ (\/ MacroDeck(store'.room) # MacroDeck(store.room)
           \/ store'.room.macroEvent # store.room.macroEvent
           \/ store'.room.roundModifiers # store.room.roundModifiers)
             => RoundAdvances]_vars

\* round 3 has been entered: macro-m6 lies on macro-m5 in the discard pile and
\* its entry carries the pick bonus
C30_Witness ==
    /\ resp.status = 200
    /\ store.room.log # <<>>
    /\ LastLog(store.room).type \in {"END_TURN", "ADVANCE_ROUND"}
    /\ store.room.currentRound = 3
    /\ store.room.turnCount = 0
    /\ store.room.macroEvent = "macro-m6"
    /\ MacroDeck(store.room).discardPile = <<"macro-m5", "macro-m6">>
    /\ \E entry \in EntriesFor(store.room, "macro-m6") : entry.tailwindPickBonus = 1
    /\ store.room.version = startVersion + 2


(***************************************************************************)
(* The turn nonce.                                                         *)
(***************************************************************************)
\* the committed action moved the turn to another seat or began a new round
TurnChanged ==
    /\ ActionCommitted
    /\ \/ store'.room.currentSeat # store.room.currentSeat
       \/ store'.room.currentRound # store.room.currentRound

\* a request of the seat on the room, fresh but for the nonce it carries
WithNonce(room, seat, action, nonce) ==
    [ActRequest(room, "ok", seat, "none", action) EXCEPT !.expectedTurnNonce = nonce]

MaxHand == 9
HandSizes == 0..MaxHand

\* the room with the seat's hand of the given size and no discard owed
WithHand(room, seat, size) ==
    [room EXCEPT !.seats[seat].handSize = size,
                 !.seats[seat].mustDiscard = FALSE,
                 !.seats[seat].discardTarget = NullTarget]

\* 7 unless a round modifier overrides it: 6 under the macro-m5 modifier
ActiveHandLimit(room) ==
    IF \E i \in DOMAIN room.roundModifiers : room.roundModifiers[i].source = "macro-m5"
    THEN 6 ELSE 7

\* next is room after a pick of the seat, as far as its hand goes
PickedAsStated(room, next, seat) ==
    /\ next.seats[seat].handSize = room.seats[seat].handSize + 1
    /\ IF next.seats[seat].handSize > ActiveHandLimit(room)
       THEN /\ next.seats[seat].mustDiscard
            /\ next.seats[seat].discardTarget = ActiveHandLimit(room)
       ELSE /\ ~next.seats[seat].mustDiscard
            /\ next.seats[seat].discardTarget = NullTarget

PickCardIds == {NullCard} \cup 1..5 \cup {NumAssets + 1}

\* asset markets and draw piles tried on the applier
MarketShapes == {<<>>, <<2>>, <<2, 1>>, <<1, 2, 3>>, <<3, 1>>}
PileShapes == {<<>>, <<4>>, <<2, 4>>, <<4, 5, 6, 7>>}

\* a card lies in the market or in the pile, never in both
DisjointShapes(available, pile) == SeqToSet(available) \cap SeqToSet(pile) = {}

\* the room with the given asset market and draw pile
WithAssets(room, available, pile) ==
    [room EXCEPT !.market.availableAssets = available,
                 !.decks.assetsRound1.drawPile = pile]

\* the market assets without a pickCondition, in market order
EligibleInMarket(room) ==
    SelectSeq(room.market.availableAssets, LAMBDA id : id \notin ConditionalAssets)

\* the card a PICK_ASSET naming cardId is to pick; NullCard when there is none
StatedPick(room, cardId) ==
    IF cardId # NullCard /\ cardId \in SeqToSet(EligibleInMarket(room)) THEN cardId
    ELSE IF EligibleInMarket(room) # <<>> THEN EligibleInMarket(room)[1]
    ELSE IF room.decks.assetsRound1.drawPile # <<>>
    THEN Head(room.decks.assetsRound1.drawPile)
    ELSE NullCard

\* next is room after the pick of picked and the refill of the market
MarketAsStated(room, next, picked) ==
    LET fromMarket == picked \in SeqToSet(EligibleInMarket(room))
        rest == SelectSeq(room.market.availableAssets, LAMBDA id : id # picked)
        kept == IF fromMarket THEN rest ELSE room.market.availableAssets
        pile == IF fromMarket THEN room.decks.assetsRound1.drawPile
                ELSE Tail(room.decks.assetsRound1.drawPile)
        wanted == IF Len(kept) < AssetMarketSize THEN AssetMarketSize - Len(kept) ELSE 0
        drawn == IF wanted < Len(pile) THEN wanted ELSE Len(pile)
    IN /\ next.market.availableAssets = kept \o SubSeq(pile, 1, drawn)
       /\ next.decks.assetsRound1.drawPile = SubSeq(pile, drawn + 1, Len(pile))
       /\ \/ Len(next.market.availableAssets) >= AssetMarketSize
          \/ next.decks.assetsRound1.drawPile = <<>>
       /\ picked \notin SeqToSet(next.market.availableAssets)

\* the applier's pick on room is the stated one
PickAsStated(room, seat, cardId) ==
    LET picked == applyPickAsset(room, seat,
                                 Action("PICK_ASSET", cardId, NullCard, <<>>, "none"))
    IN IF StatedPick(room, cardId) = NullCard
       THEN ~picked.ok
       ELSE /\ picked.ok
            /\ picked.privateDelta # <<>>
            /\ picked.privateDelta[1].addedCardIds = <<StatedPick(room, cardId)>>
            /\ picked.privateDelta[1].removedCardIds = <<>>
            /\ MarketAsStated(room, picked.room, StatedPick(room, cardId))

\* C33: PICK_ASSET picks the supplied cardId when it is an eligible market
\* asset, otherwise the first eligible market asset, otherwise the top card of
\* the assetsRound1 draw pile; it then refills the asset market from the draw
\* pile until it holds 3 cards or the pile is empty, and
\* privateDelta.addedCardIds names exactly the picked card, which is not in the
\* market afterwards.  Checked for the applier on every reachable room, on the
\* rooms the exploration starts from with each market and pile shape, and for
\* every pick that is written.
C33_PickAsset ==
    /\ [](/\ \A cardId \in PickCardIds :
                PickAsStated(store.room, store.room.currentSeat, cardId)
          /\ store.room.version = startVersion =>
                \A available \in MarketShapes, pile \in PileShapes, cardId \in PickCardIds :
                    DisjointShapes(available, pile) =>
                    PickAsStated(WithAssets(store.room, available, pile),
                                 store.room.currentSeat, cardId))
    /\ [][KindCommitted("PICK_ASSET") =>
             /\ resp'.privateDelta # <<>>
             /\ Len(resp'.privateDelta[1].addedCardIds) = 1
             /\ resp'.privateDelta[1].seat = LastLog(store'.room).seat
             /\ MarketAsStated(store.room, store'.room, resp'.privateDelta[1].addedCardIds[1])]_vars

\* the named card 3 has been picked from the market, which holds three cards
\* again, the conditional card among them
C33_Witness ==
    /\ resp.status = 200
    /\ store.room.log # <<>>
    /\ LastLog(store.room).type = "PICK_ASSET"
    /\ resp.privateDelta # <<>>
    /\ resp.privateDelta[1].addedCardIds = <<3>>
    /\ Len(store.room.market.availableAssets) = AssetMarketSize
    /\ 3 \notin SeqToSet(store.room.market.availableAssets)
    /\ 2 \in SeqToSet(store.room.market.availableAssets)


(***************************************************************************)
(* Starting a project.                                                     *)
(***************************************************************************)
\* project ids a START_PROJECT may name: none, the catalog, an unknown one
StartProjectIds == {NullCard} \cup 1..(NumProjects + 1)

\* a project as it is when just started
FreshProject(project, projectId) ==
    /\ project.id = projectId
    /\ project.stage = "NONE"
    /\ project.paused = FALSE
    /\ project.allocatedCardIds = <<>>
    /\ project.allocatedTotals = [budget |-> 0, headcount |-> 0, tailwind |-> 0]

\* next is room after seat has started projectId
StartedAsStated(room, next, seat, projectId) ==
    LET rest == SelectSeq(room.market.availableProjects, LAMBDA id : id # projectId)
        pile == room.decks.projects.drawPile
        wanted == ProjectMarketSize - Len(rest)
        drawn == IF wanted < Len(pile) THEN wanted ELSE Len(pile)
    IN /\ projectId \in SeqToSet(room.market.availableProjects)
       /\ projectId \notin SeqToSet(next.market.availableProjects)
       /\ next.market.availableProjects = rest \o SubSeq(pile, 1, drawn)
       /\ next.decks.projects.drawPile = SubSeq(pile, drawn + 1, Len(pile))
       /\ \/ Len(next.market.availableProjects) = ProjectMarketSize
          \/ next.decks.projects.drawPile = <<>>
       /\ Len(next.seats[seat].projects) = Len(room.seats[seat].projects) + 1
       /\ SubSeq(next.seats[seat].projects, 1, Len(room.seats[seat].projects))
              = room.seats[seat].projects
       /\ FreshProject(next.seats[seat].projects[Len(next.seats[seat].projects)], projectId)
       /\ next.seats[seat].projectsStartedThisRound
              = room.seats[seat].projectsStartedThisRound + 1
       /\ next.seats[seat].handSize = room.seats[seat].handSize
       /\ \A other \in DOMAIN room.seats \ {seat} : next.seats[other] = room.seats[other]
       /\ next.market.availableAssets = room.market.availableAssets
       /\ next.decks.assetsRound1 = room.decks.assetsRound1

\* the applier's answer to START_PROJECT naming projectId is the stated one
StartAsStated(room, seat, projectId) ==
    LET started == applyStartProject(room, seat,
                                     Action("START_PROJECT", NullCard, projectId, <<>>, "none"))
    IN IF projectId \in SeqToSet(room.market.availableProjects)
       THEN /\ started.ok
            /\ started.privateDelta = <<>>
            /\ StartedAsStated(room, started.room, seat, projectId)
       ELSE /\ ~started.ok
            /\ started.room = room

\* C34: START_PROJECT succeeds only for a project id that is in the project
\* market; it removes the id from the market, appends to the acting seat a new
\* project instance with stage NONE, no allocations and paused false, adds
\* exactly 1 to the seat's projectsStartedThisRound, refills the project market
\* from the projects draw pile up to 5 and returns a null privateDelta; any
\* other project id is refused and nothing changes.
C34_StartProject ==
    /\ [](\A seat \in PlayerSeats, projectId \in StartProjectIds :
             StartAsStated(store.room, seat, projectId))
    /\ [][KindCommitted("START_PROJECT") =>
             /\ resp'.privateDelta = <<>>
             /\ \E projectId \in ProjectIds :
                    StartedAsStated(store.room, store'.room,
                                    LastLog(store'.room).seat, projectId)]_vars
    /\ [][(resp' # resp /\ resp'.error = "Selected project is not available in market.")
             => store' = store]_vars

\* the last project of the deck has been started after project 1: the market
\* is one short, the pile is empty, and the seat has started two projects
C34_Witness ==
    /\ resp.status = 200
    /\ store.room.log # <<>>
    /\ LastLog(store.room).type = "START_PROJECT"
    /\ store.room.seats[LastLog(store.room).seat].projectsStartedThisRound = 2
    /\ Len(store.room.seats[LastLog(store.room).seat].projects) = 2
    /\ store.room.seats[LastLog(store.room).seat].projects[2].id = NumProjects
    /\ Len(store.room.market.availableProjects) = ProjectMarketSize - 1
    /\ store.room.decks.projects.drawPile = <<>>


(***************************************************************************)
(* Hand sizes.                                                             *)
(***************************************************************************)
\* card lists an ALLOCATE_TO_PROJECT may carry: none, one, a repeated card,
\* two and three cards
AllocateShapes == {<<>>, <<4>>, <<4, 4>>, <<4, 5>>, <<4, 5, 1>>}

\* hand sizes around the lengths of the card lists
SmallHands == 0..3

\* the handSize of seat in next is the one in room plus change
HandChangedBy(room, next, seat, change) ==
    next.seats[seat].handSize = room.seats[seat].handSize + change

\* the applier allocates cardIds only when there are some, all different and
\* no more than the hand holds, and then takes that many from the hand
AllocateAsStated(room, seat, cardIds) ==
    LET allocated == applyAllocateToProject(room, seat,
                        Action("ALLOCATE_TO_PROJECT", NullCard, NullCard, cardIds, "hash-1"))
    IN /\ (\/ Len(cardIds) = 0
           \/ Cardinality(SeqToSet(cardIds)) # Len(cardIds)
           \/ Len(cardIds) > room.seats[seat].handSize) => ~allocated.ok
       /\ allocated.ok => HandChangedBy(room, allocated.room, seat, -Len(cardIds))

\* the applier discards only from a hand that is not empty and then takes one
DiscardAsStated(room, seat) ==
    LET discarded == applyDiscardAsset(room, seat,
                                       Action("DISCARD_ASSET", 1, NullCard, <<>>, "none"))
    IN /\ room.seats[seat].handSize = 0 => ~discarded.ok
       /\ discarded.ok => HandChangedBy(room, discarded.room, seat, -1)

\* the cards of the project the seat pauses when it names none
FirstUnpausedCards(room, seat) ==
    LET projects == room.seats[seat].projects
        unpaused == {i \in DOMAIN projects : ~projects[i].paused}
    IN projects[CHOOSE i \in unpaused : \A j \in unpaused : i <= j].allocatedCardIds

\* the change of the acting seat's handSize by a written action
HandChangeOf(room, entry, delta) ==
    CASE entry.type = "PICK_ASSET" -> 1
      [] entry.type = "DISCARD_ASSET" -> -1
      [] entry.type = "ALLOCATE_TO_PROJECT" -> -Len(delta[1].removedCardIds)
      [] entry.type = "PAUSE_PROJECT" -> Len(FirstUnpausedCards(room, entry.seat))
      [] OTHER -> 0

\* C35: every seat's handSize is a non-negative integer in every reachable
\* state: ALLOCATE_TO_PROJECT with more card ids than the handSize, with none
\* or with duplicates, and DISCARD_ASSET with handSize 0, are refused, and each
\* applied action changes the acting seat's handSize by exactly +1 (pick),
\* -1 (discard), -len(cardIds) (allocate) or +len(allocatedCardIds) (pause),
\* and no other seat's handSize.
C35_HandSize ==
    /\ [](/\ \A seat \in DOMAIN store.room.seats : store.room.seats[seat].handSize \in Nat
          /\ \A seat \in PlayerSeats, size \in SmallHands :
                /\ \A cardIds \in AllocateShapes :
                       AllocateAsStated(WithHand(store.room, seat, size), seat, cardIds)
                /\ DiscardAsStated(WithHand(store.room, seat, size), seat))
    /\ [][(ActionCommitted /\ resp'.status = 200) =>
             /\ HandChangedBy(store.room, store'.room, LastLog(store'.room).seat,
                              HandChangeOf(store.room, LastLog(store'.room), resp'.privateDelta))
             /\ \A other \in DOMAIN store.room.seats \ {LastLog(store'.room).seat} :
                    HandChangedBy(store.room, store'.room, other, 0)]_vars

\* three cards have been allocated at once and the hand is empty
C35_Witness ==
    /\ resp.status = 200
    /\ store.room.log # <<>>
    /\ LastLog(store.room).type = "ALLOCATE_TO_PROJECT"
    /\ resp.privateDelta # <<>>
    /\ Len(resp.privateDelta[1].removedCardIds) = 3
    /\ store.room.seats[LastLog(store.room).seat].handSize = 0


(***************************************************************************)
(* Free actions.                                                           *)
(***************************************************************************)
\* the kinds that do not end a turn
FreeKinds == {"PICK_ASSET", "START_PROJECT", "ALLOCATE_TO_PROJECT",
              "PAUSE_PROJECT", "DISCARD_ASSET"}

\* whose turn it is, and where in the round and in the game
TurnFields(room) ==
    [currentSeat |-> room.currentSeat,
     turnCount |-> room.turnCount,
     currentRound |-> room.currentRound]

\* the actions of the free kinds that are tried
FreeActionChoices == {a \in ActionChoices : a.type \in FreeKinds}

\* C36: only END_TURN and ADVANCE_ROUND consume the turn: PICK_ASSET,
\* START_PROJECT, ALLOCATE_TO_PROJECT, PAUSE_PROJECT and DISCARD_ASSET leave
\* currentSeat, turnCount and currentRound unchanged, so the acting seat
\* remains the current seat until it ends its turn.
C36_FreeActions ==
    /\ [](\A seat \in PlayerSeats, action \in FreeActionChoices :
             TurnFields(applyRoomAction(store.room, seat, action).room)
                 = TurnFields(store.room))
    /\ [][\A type \in FreeKinds :
             KindCommitted(type) =>
                 /\ TurnFields(store'.room) = TurnFields(store.room)
                 /\ LastLog(store'.room).seat = store.room.currentSeat
                        => store'.room.currentSeat = LastLog(store'.room).seat]_vars
    /\ [][(ActionCommitted /\ TurnFields(store'.room) # TurnFields(store.room))
             => LastLog(store'.room).type \in {"END_TURN", "ADVANCE_ROUND"}]_vars

\* the current seat has started a project, picked a card and allocated to the
\* project, and it is still its turn, the first of the round
C36_Witness ==
    /\ resp.status = 200
    /\ Len(store.room.log) >= 3
    /\ LastLog(store.room).type = "ALLOCATE_TO_PROJECT"
    /\ \E i \in DOMAIN store.room.log : store.room.log[i].type = "START_PROJECT"
    /\ \E i \in DOMAIN store.room.log : store.room.log[i].type = "PICK_ASSET"
    /\ \A i \in DOMAIN store.room.log : store.room.log[i].seat = store.room.currentSeat
    /\ store.room.turnCount = 0
    /\ store.room.currentRound = 1


(***************************************************************************)
(* Pausing a project.                                                      *)
(***************************************************************************)
\* project ids a PAUSE_PROJECT may name: none, or one of the catalog
PauseProjectIds == {NullCard} \cup ProjectIds

\* the seat's projects a PAUSE_PROJECT naming projectId is about
PauseCandidates(room, seat, projectId) ==
    LET projects == room.seats[seat].projects
    IN IF projectId # NullCard
       THEN {i \in DOMAIN projects : projects[i].id = projectId}
       ELSE {i \in DOMAIN projects : ~projects[i].paused}

\* next is room after seat has paused its project number i
PausedAsStated(room, next, seat, i) ==
    LET before == room.seats[seat].projects[i]
        after == next.seats[seat].projects[i]
    IN /\ ~before.paused
       /\ after.id = before.id
       /\ after.paused
       /\ after.abandonedPenaltyCount = 1
       /\ after.stage = "NONE"
       /\ after.allocatedTotals = [budget |-> 0, headcount |-> 0, tailwind |-> 0]
       /\ after.allocatedCardIds = <<>>
       /\ next.seats[seat].handSize
              = room.seats[seat].handSize + Len(before.allocatedCardIds)
       /\ Len(next.seats[seat].projects) = Len(room.seats[seat].projects)
       /\ \A j \in DOMAIN room.seats[seat].projects \ {i} :
              next.seats[seat].projects[j] = room.seats[seat].projects[j]

\* the applier's answer to PAUSE_PROJECT naming projectId is the stated one
PauseAsStated(room, seat, projectId) ==
    LET paused == applyPauseProject(room, seat,
                                    Action("PAUSE_PROJECT", NullCard, projectId, <<>>, "none"))
        candidates == PauseCandidates(room, seat, projectId)
    IN IF \E i \in candidates : ~room.seats[seat].projects[i].paused
       THEN /\ paused.ok
            /\ \E i \in candidates :
                  /\ PausedAsStated(room, paused.room, seat, i)
                  /\ paused.privateDelta
                         = Delta(seat, room.seats[seat].projects[i].allocatedCardIds, <<>>)
       ELSE /\ ~paused.ok
            /\ paused.room = room

\* the handSize of seat after it allocates cardIds to its project number i and
\* then pauses that project; -1 when the allocation is refused
HandAfterAllocateAndPause(room, seat, i, cardIds) ==
    LET projectId == room.seats[seat].projects[i].id
        allocated == applyAllocateToProject(room, seat,
                        Action("ALLOCATE_TO_PROJECT", NullCard, projectId, cardIds, "hash-1"))
        paused == applyPauseProject(allocated.room, seat,
                        Action("PAUSE_PROJECT", NullCard, projectId, <<>>, "none"))
    IN IF allocated.ok /\ paused.ok THEN paused.room.seats[seat].handSize ELSE -1

\* the allocations that are accepted, each followed by a pause of the project
AllocateAndPauseTrips(room) ==
    {trip \in [seat : PlayerSeats, i : 1..NumProjects, cardIds : AllocateShapes] :
        /\ trip.i \in DOMAIN room.seats[trip.seat].projects
        /\ HandAfterAllocateAndPause(room, trip.seat, trip.i, trip.cardIds) # -1}

\* the pause is as stated for both seats and every project id
PauseEffects ==
    \A seat \in PlayerSeats, projectId \in PauseProjectIds :
        PauseAsStated(store.room, seat, projectId)

\* C37 as stated: PAUSE_PROJECT on an unpaused owned project sets paused true,
\* abandonedPenaltyCount 1, stage NONE, zero totals and an empty
\* allocatedCardIds and returns exactly the cards that were allocated, so
\* allocating k cards to a project and then pausing it restores the seat's
\* handSize; pausing an already paused project is refused.
C37_PauseRestoresHand ==
    /\ PauseEffects
    /\ \A trip \in AllocateAndPauseTrips(store.room) :
           HandAfterAllocateAndPause(store.room, trip.seat, trip.i, trip.cardIds)
               = store.room.seats[trip.seat].handSize

\* C37: PAUSE_PROJECT on an unpaused owned project sets paused true,
\* abandonedPenaltyCount 1, stage NONE, zero totals and an empty
\* allocatedCardIds and returns every card allocated to the project: handSize
\* grows by their number and privateDelta.addedCardIds equals them.  Allocating
\* k cards to a project and then pausing it leaves the seat with its handSize
\* from before the allocation plus the number of cards the project already
\* held, which is the handSize from before exactly when the project held none.
\* Pausing an already paused project is refused.
C37_PauseProject ==
    /\ [](/\ PauseEffects
          /\ \A trip \in AllocateAndPauseTrips(store.room) :
                 HandAfterAllocateAndPause(store.room, trip.seat, trip.i, trip.cardIds)
                     = store.room.seats[trip.seat].handSize
                       + Len(store.room.seats[trip.seat].projects[trip.i].allocatedCardIds))
    /\ [][KindCommitted("PAUSE_PROJECT") =>
             \E i \in DOMAIN store.room.seats[LastLog(store'.room).seat].projects :
                 /\ PausedAsStated(store.room, store'.room, LastLog(store'.room).seat, i)
                 /\ resp'.privateDelta =
                       Delta(LastLog(store'.room).seat,
                             store.room.seats[LastLog(store'.room).seat].projects[i].allocatedCardIds,
                             <<>>)]_vars

\* a seat has started a project, allocated a card to it and paused it: the
\* card is back, the hand is as large as it was dealt
C37_Witness ==
    /\ resp.status = 200
    /\ Len(store.room.log) >= 3
    /\ LastLog(store.room).type = "PAUSE_PROJECT"
    /\ store.room.log[Len(store.room.log) - 1].type = "ALLOCATE_TO_PROJECT"
    /\ store.room.log[Len(store.room.log) - 2].type = "START_PROJECT"
    /\ resp.privateDelta # <<>>
    /\ resp.privateDelta[1].addedCardIds = <<4>>
    /\ store.room.seats[LastLog(store.room).seat].handSize = DealSize
    /\ \E i \in DOMAIN store.room.seats[LastLog(store.room).seat].projects :
           /\ store.room.seats[LastLog(store.room).seat].projects[i].paused
           /\ store.room.seats[LastLog(store.room).seat].projects[i].abandonedPenaltyCount = 1

(***************************************************************************)
(* Discarding under round-end debt.                                        *)
(***************************************************************************)
\* hands, discard targets and debts tried on the discard
DiscardHands == {1, 6, 7, 8, MaxHand}
DiscardTargets == {NullTarget, 6, DefaultHandLimit}
DebtSizes == 0..2

\* the room with the seat's hand, discard target and round-end debt set
WithDiscardCase(room, seat, size, target, debt) ==
    [room EXCEPT !.seats[seat].handSize = size,
                 !.seats[seat].mustDiscard = target # NullTarget,
                 !.seats[seat].discardTarget = target,
                 !.mustDiscardBySeat[seat] = debt]

\* the limit a discarding seat is measured against
EffectiveLimit(room, seat) ==
    IF room.seats[seat].discardTarget # NullTarget
    THEN room.seats[seat].discardTarget
    ELSE DefaultHandLimit

\* next is room after a discard of seat
DiscardedAsStated(room, next, seat) ==
    /\ next.seats[seat].handSize = room.seats[seat].handSize - 1
    /\ next.seats[seat].mustDiscard
           <=> (room.seats[seat].handSize - 1 > EffectiveLimit(room, seat))
    /\ next.seats[seat].discardTarget =
           IF room.seats[seat].handSize - 1 > EffectiveLimit(room, seat)
           THEN EffectiveLimit(room, seat)
           ELSE NullTarget
    /\ DebtOf(room, seat) > 0 => DebtOf(next, seat) = DebtOf(room, seat) - 1
    /\ DebtOf(room, seat) = 0 => DebtOf(next, seat) = 0
    /\ \A other \in DOMAIN room.mustDiscardBySeat \ {seat} :
           DebtOf(next, other) = DebtOf(room, other)

\* the applier's discard on room is the stated one
DiscardPaysAsStated(room, seat) ==
    LET discarded == applyDiscardAsset(room, seat,
                                       Action("DISCARD_ASSET", 1, NullCard, <<>>, "none"))
    IN /\ discarded.ok
       /\ DiscardedAsStated(room, discarded.room, seat)

FlagMatchesHand(room, seat) ==
    room.seats[seat].mustDiscard <=> room.seats[seat].handSize > ActiveHandLimit(room)

\* C39 as stated: in every reachable state a seat's mustDiscard flag is true
\* exactly when its handSize exceeds the active hand limit: no sequence of
\* actions, an ALLOCATE_TO_PROJECT lowering the hand or a PAUSE_PROJECT
\* returning cards to it included, leaves a seat flagged while at or under the
\* limit, or over the limit while unflagged.
C39_FlagMatchesHand ==
    \A seat \in DOMAIN store.room.seats : FlagMatchesHand(store.room, seat)

\* a seat flagged at 8 cards has allocated one card: it holds 7, the limit of
\* round 1, and is still flagged with target 7
C39_Witness ==
    /\ resp.status = 200
    /\ store.room.log # <<>>
    /\ LastLog(store.room).type = "ALLOCATE_TO_PROJECT"
    /\ store.room.currentRound = 1
    /\ ActiveHandLimit(store.room) = DefaultHandLimit
    /\ store.room.seats[LastLog(store.room).seat].handSize = DefaultHandLimit
    /\ store.room.seats[LastLog(store.room).seat].mustDiscard
    /\ store.room.seats[LastLog(store.room).seat].discardTarget = DefaultHandLimit


(***************************************************************************)
(* The round-end gate and progress.                                        *)
(***************************************************************************)
\* the seats that still owe a round-end discard
OwingSeats(room) == {seat \in DOMAIN room.seats : DebtOf(room, seat) > 0}

\* every request a seat of the room can send with the right token, version
\* and nonce
FreshRequests(room) ==
    {ActRequest(room, "ok", seat, "none", action) :
        seat \in DOMAIN room.seats, action \in ActionChoices \cup TurnActionChoices}

\* no request is applied to the room, whoever sends it and whatever it asks
NothingApplicable(room) == \A req \in FreshRequests(room) : ~handleAct(room, req).write

=============================================================================
